---- MODULE Spec2Model ----
(***************************************************************************)
(* censusbuddy: the on-disk query cache (_QueryCache), the key builder      *)
(* (make_key) and the API client (CensusQuery.query) of                     *)
(* src/censusbuddy/census.py, as a state machine.                           *)
(***************************************************************************)
EXTENDS Integers, Sequences, FiniteSets, TLC

(* ------------------------------------------------------------------ *)
(* Bounds of the model                                                 *)
(* ------------------------------------------------------------------ *)
MaxParms == 2       \* entries of a parameter dict handed to make_key
MaxRows == 1        \* rows of a DataFrame
MaxAlloc == 3       \* FileIds a cache may allocate above the baseline

(* ------------------------------------------------------------------ *)
(* Python values                                                       *)
(* ------------------------------------------------------------------ *)
\* A Python scalar: its type and the text str() gives for it.
S(s) == [t |-> "str", s |-> s]
I(s) == [t |-> "int", s |-> s]
PyNone == [t |-> "none", s |-> ""]

\* Python's order on the strings the model sorts (sorted() compares code
\* points, so upper case comes before lower case).
StrRank(n) ==
    CASE n = "GEOID" -> 1
      [] n = "NAME" -> 2
      [] n = "X" -> 3
      [] n = "county" -> 4
      [] n = "descriptive" -> 5
      [] n = "for" -> 6
      [] n = "get" -> 7
      [] n = "in" -> 8
      [] n = "key" -> 9
      [] n = "state" -> 10
      [] n = "time" -> 11

\* A dict is the sequence of its (name, value) items in insertion order.
DictKeys(d) == {d[j][1] : j \in 1..Len(d)}
DictGet(d, k) == d[CHOOSE j \in 1..Len(d) : d[j][1] = k][2]
DictItems(d) == {d[j] : j \in 1..Len(d)}
DictSet(d, k, v) ==
    IF k \in DictKeys(d)
    THEN [j \in 1..Len(d) |-> IF d[j][1] = k THEN <<k, v>> ELSE d[j]]
    ELSE Append(d, <<k, v>>)
RECURSIVE DictUpdate(_, _)
DictUpdate(d, e) ==
    IF e = <<>> THEN d
    ELSE DictUpdate(DictSet(d, e[1][1], e[1][2]), Tail(e))

RECURSIVE SortedNames(_)
SortedNames(names) ==
    IF names = {} THEN <<>>
    ELSE LET m == CHOOSE x \in names : \A y \in names : StrRank(x) <= StrRank(y)
         IN  <<m>> \o SortedNames(names \ {m})

(* ------------------------------------------------------------------ *)
(* _QueryCache.make_key                                                *)
(* ------------------------------------------------------------------ *)
\* requests' encoding of the parameters of a prepared GET: an item whose
\* value is None is dropped, every other value is sent as its text.
RECURSIVE EncodeParams(_)
EncodeParams(items) ==
    IF items = <<>> THEN <<>>
    ELSE LET h == items[1]
         IN  (IF h[2].t = "none" THEN <<>> ELSE << <<h[1], h[2].s>> >>)
             \o EncodeParams(Tail(items))

\* p2 of make_key: the items in sorted name order, 'key' left out.
KeyItems(parms) ==
    LET ks == SortedNames(DictKeys(parms) \ {"key"})
    IN  [j \in 1..Len(ks) |-> <<ks[j], DictGet(parms, ks[j])>>]

\* The same with 'key' kept: what make_key gives without its filter.
MakeKeyWithCredential(url, parms) ==
    LET ks == SortedNames(DictKeys(parms))
    IN  [url |-> url,
         query |-> EncodeParams([j \in 1..Len(ks) |-> <<ks[j], DictGet(parms, ks[j])>>])]

\* The same in insertion order: what make_key gives without sorted().
MakeKeyUnsorted(url, parms) ==
    [url |-> url,
     query |-> EncodeParams(SelectSeq(parms, LAMBDA it : it[1] # "key"))]

\* The same with the values left out of the key.
MakeKeyNamesOnly(url, parms) ==
    [url |-> url,
     query |-> [j \in 1..Len(KeyItems(parms)) |-> <<KeyItems(parms)[j][1], "">>]]

\* The prepared URL: the base URL and the encoded query items.
make_key(url, parms) ==
    [url |-> url, query |-> EncodeParams(KeyItems(parms))]

(* ------------------------------------------------------------------ *)
(* DataFrames and their CSV form                                       *)
(* ------------------------------------------------------------------ *)
\* A DataFrame: column names in order, and rows of cells; None is NoFrame.
Frame(cols, rows) == [isdf |-> TRUE, cols |-> cols, rows |-> rows]
NoFrame == [isdf |-> FALSE, cols |-> <<>>, rows |-> <<>>]
EmptyFrame == Frame(<<>>, <<>>)

\* str() of a row label of the default RangeIndex.
IndexText(n) == <<"0", "1", "2", "3">>[n + 1]

\* pandas' integer parse of a cell text; "" where the text is no integer.
ParseInt(s) ==
    CASE s = "0" -> "0"
      [] s = "1" -> "1"
      [] s = "2" -> "2"
      [] s = "3" -> "3"
      [] s = "6" -> "6"
      [] s = "06" -> "6"
      [] OTHER -> ""

\* DataFrame.to_csv(fn): a header line of an empty label for the index
\* column and the column names, then one line per row: the row label and
\* the text of every cell.
to_csv(df) ==
    [header |-> <<"">> \o df.cols,
     lines |-> [r \in 1..Len(df.rows) |->
                  <<IndexText(r - 1)>> \o [c \in 1..Len(df.cols) |-> df.rows[r][c].s]]]

\* to_csv(fn, index=False): the columns of the frame only.
ToCsvNoIndex(df) ==
    [header |-> df.cols,
     lines |-> [r \in 1..Len(df.rows) |-> [c \in 1..Len(df.cols) |-> df.rows[r][c].s]]]

\* pandas.read_csv(fn): an unnamed header cell is named after its position,
\* a column whose cells (there is at least one) all parse as integers
\* becomes an integer column, any other column stays text.
ColumnIsInt(csv, c) ==
    /\ Len(csv.lines) > 0
    /\ \A r \in 1..Len(csv.lines) : ParseInt(csv.lines[r][c]) # ""
UnnamedColumn(c) == <<"Unnamed: 0", "Unnamed: 1", "Unnamed: 2">>[c]
read_csv(csv) ==
    Frame([c \in 1..Len(csv.header) |->
              IF csv.header[c] = "" THEN UnnamedColumn(c) ELSE csv.header[c]],
          [r \in 1..Len(csv.lines) |->
              [c \in 1..Len(csv.header) |->
                  IF ColumnIsInt(csv, c)
                  THEN I(ParseInt(csv.lines[r][c]))
                  ELSE S(csv.lines[r][c])]])

(* ------------------------------------------------------------------ *)
(* The cache directory and the cache instances                         *)
(* ------------------------------------------------------------------ *)
BaseFni == 1001
Inst == {1, 2}
Url == "https://api.census.gov/data/2015/acs5/profile"
GeoUrl == "https://api.census.gov/data/2015/acs5/profile/geography.json"

EmptyMap == [k \in {} |-> 0]
MapPut(f, k, v) == [x \in DOMAIN f \cup {k} |-> IF x = k THEN v ELSE f[x]]
MapDel(f, k) == [x \in DOMAIN f \ {k} |-> f[x]]
Range(f) == {f[x] : x \in DOMAIN f}
MaxOf(s) == CHOOSE m \in s : \A x \in s : x <= m

\* query_index.json: missing, or holding a mapping, or not parseable as JSON.
AbsentIndexFile == [exists |-> FALSE, ok |-> TRUE, map |-> EmptyMap]
IndexFileOf(idx) == [exists |-> TRUE, ok |-> TRUE, map |-> idx]
BrokenIndexFile == [exists |-> TRUE, ok |-> FALSE, map |-> EmptyMap]
\* A result file of no bytes.
ZeroByteCsv == [header |-> <<>>, lines |-> <<>>]

Cells == {S("a"), S("06"), I("6")}
Datasets ==
    UNION {{Frame(<<"NAME", "X">>, rows) :
                rows \in [1..n -> {<<S("a"), c>> : c \in Cells}]} : n \in 0..MaxRows}
CacheKeys == {make_key(Url, << <<"get", S(f)>> >>) : f \in {"X", "Y"}}

VARIABLES
    st,          \* st[i]: "none" (no object), "up", "failed" (constructor raised)
    index,       \* index[i]: self.index of instance i's _QueryCache
    last_fni,    \* last_fni[i]: self.last_fni
    indexFile,   \* query_index.json in the cache directory
    files,       \* the result files qcNNNNNNNNN.csv, by FileId
    last,        \* the operation that ran last and what it returned
    prev,        \* the operation that ran before it (before a query: only
                 \* if it was a query with the same arguments, else NoOp)
    kin,         \* make_key on its own: the arguments of two calls
    kout,        \* make_key on its own: what the two calls returned
    api_key,     \* api_key[i]: self.api_key of CensusQuery i
    dataset,     \* dataset[i]: the dataset whose descriptor self.dataset holds, or ""
    catalog,     \* catalog[i]: self.vars, variable name -> predicateType
    dsFile,      \* the dataset names that have a <name>_dataset.json
    varsFile,    \* <name>_vars.json: dataset name -> catalog
    default_get, \* the list object that is query's default for get_clause
    asked,       \* asked[name]: the requests issued for the descriptor and for
                 \* the catalog of a dataset name, counted up to MaxAsked
    arg,         \* a module-level function on its own: the call's arguments
    ret,         \* a module-level function on its own: what the call returned
    tiger,       \* the TigerDownloaderHTTP object: self.basename, self.dryrun
    tdir,        \* its cache_dir: the .zip and the .geojson of each basename
    temps,       \* the directories tempfile.mkdtemp made that still exist
    tlast        \* the TigerDownloader call that ran last and how it ended

cacheVars == <<st, index, last_fni, indexFile, files>>
keyVars == <<kin, kout>>
libVars == <<arg, ret>>
tigerVars == <<tiger, tdir, temps, tlast>>
clientVars == <<api_key, dataset, catalog, dsFile, varsFile, default_get, asked>>
vars == <<st, index, last_fni, indexFile, files, last, prev, kin, kout,
          api_key, dataset, catalog, dsFile, varsFile, default_get, asked, arg, ret,
          tiger, tdir, temps, tlast>>

\* What an operation leaves for the observer: the operation, its instance,
\* its key, the frame passed or returned, the FileId of the file named, whether
\* the key was missing from the index when it started, whether it raised.
\* For a query also: its arguments, the parameters of the request it built,
\* the requests it issued, what the server answered to them, and the way it
\* ended.
NoArgs == [omitted |-> FALSE, get |-> <<>>, for |-> <<>>, in |-> <<>>,
           parameters |-> <<>>, cache |-> FALSE]
NoAnswer == [status |-> "", body |-> NoFrame]
NoAnswers == [geo |-> "", resp |-> NoAnswer]
Op(op, i, key, df, fn, fresh, raised) ==
    [op |-> op, inst |-> i, key |-> key, df |-> df, fn |-> fn,
     fresh |-> fresh, raised |-> raised,
     args |-> NoArgs, sent |-> <<>>, net |-> <<>>, env |-> NoAnswers, via |-> ""]
NoKey == [url |-> "", query |-> <<>>]
NoOp == Op("none", 0, NoKey, NoFrame, 0, FALSE, FALSE)

(* ------------------------------------------------------------------ *)
(* _QueryCache.__init__                                                *)
(* ------------------------------------------------------------------ *)
InitRaises(ixf) == ixf.exists /\ ~ixf.ok
InitIndex(ixf) == IF ixf.exists THEN ixf.map ELSE EmptyMap
InitLastFni(idx) == IF DOMAIN idx # {} THEN MaxOf(Range(idx)) ELSE BaseFni

CacheInit(i) ==
    /\ IF InitRaises(indexFile)
       THEN /\ st' = [st EXCEPT ![i] = "failed"]
            /\ index' = [index EXCEPT ![i] = EmptyMap]
            /\ last_fni' = [last_fni EXCEPT ![i] = BaseFni]
       ELSE /\ st' = [st EXCEPT ![i] = "up"]
            /\ index' = [index EXCEPT ![i] = InitIndex(indexFile)]
            /\ last_fni' = [last_fni EXCEPT ![i] = InitLastFni(InitIndex(indexFile))]
    /\ last' = Op("init", i, NoKey, NoFrame, 0, FALSE, InitRaises(indexFile))
    /\ prev' = last
    /\ UNCHANGED <<indexFile, files, keyVars, libVars, clientVars, tigerVars>>

(* ------------------------------------------------------------------ *)
(* _QueryCache.load                                                    *)
(* ------------------------------------------------------------------ *)
\* The entry is in the index and its result file is gone.
Stale(idx, fs, key) == key \in DOMAIN idx /\ idx[key] \notin DOMAIN fs

LoadIndexKeepStale(idx, fs, key) == idx
LoadIndex(idx, fs, key) == IF Stale(idx, fs, key) THEN MapDel(idx, key) ELSE idx

LoadFn(idx, key) == IF key \in DOMAIN idx THEN idx[key] ELSE 0
LoadRaises(idx, fs, key) ==
    key \in DOMAIN idx /\ idx[key] \in DOMAIN fs /\ fs[idx[key]] = ZeroByteCsv
LoadFrameFirstFile(idx, fs, key) ==
    IF DOMAIN fs = {} THEN NoFrame
    ELSE read_csv(fs[CHOOSE f \in DOMAIN fs : \A g \in DOMAIN fs : f <= g])
LoadFrame(idx, fs, key) ==
    IF key \notin DOMAIN idx \/ Stale(idx, fs, key) \/ LoadRaises(idx, fs, key)
    THEN NoFrame
    ELSE read_csv(fs[idx[key]])

Load(i, key) ==
    /\ st[i] = "up"
    /\ index' = [index EXCEPT ![i] = LoadIndex(index[i], files, key)]
    /\ last' = Op("load", i, key, LoadFrame(index[i], files, key), LoadFn(index[i], key),
                  key \notin DOMAIN index[i], LoadRaises(index[i], files, key))
    /\ prev' = last
    /\ UNCHANGED <<st, last_fni, indexFile, files, keyVars, libVars, clientVars, tigerVars>>

(* ------------------------------------------------------------------ *)
(* _QueryCache.save                                                    *)
(* ------------------------------------------------------------------ *)
SaveFniAlwaysNew(idx, lf, key) == lf + 1
SaveFniFromIndex(idx, lf, key) ==
    IF key \in DOMAIN idx THEN idx[key]
    ELSE IF DOMAIN idx = {} THEN BaseFni ELSE MaxOf(Range(idx)) + 1
SaveFni(idx, lf, key) == IF key \in DOMAIN idx THEN idx[key] ELSE lf + 1
SaveFilesSkip(fs, fni, df) == fs
SaveFiles(fs, fni, df) == MapPut(fs, fni, to_csv(df))
SaveIndexForget(idx, fni, key) == idx
SaveIndex(idx, fni, key) == MapPut(idx, key, fni)
\* json.dump of the index, after the key was entered.
SaveIndexFileBeforeEntry(idx, fni, key) == IndexFileOf(idx)
SaveIndexFile(idx, fni, key) == IndexFileOf(SaveIndex(idx, fni, key))
SaveLastFniStuck(lf, fni) == lf
SaveLastFni(lf, fni) == IF fni > lf THEN fni ELSE lf

Save(i, key, df) ==
    LET fni == SaveFni(index[i], last_fni[i], key) IN
    /\ st[i] = "up"
    /\ fni <= BaseFni + MaxAlloc
    /\ files' = SaveFiles(files, fni, df)
    /\ index' = [index EXCEPT ![i] = SaveIndex(index[i], fni, key)]
    /\ last_fni' = [last_fni EXCEPT ![i] = SaveLastFni(last_fni[i], fni)]
    /\ indexFile' = SaveIndexFile(index[i], fni, key)
    /\ last' = Op("save", i, key, df, fni, key \notin DOMAIN index[i], FALSE)
    /\ prev' = last
    /\ UNCHANGED <<st, keyVars, libVars, clientVars, tigerVars>>

(* ------------------------------------------------------------------ *)
(* The environment: a result file is removed from the directory        *)
(* ------------------------------------------------------------------ *)
RemoveFile(f) ==
    /\ f \in DOMAIN files
    /\ files' = MapDel(files, f)
    /\ last' = Op("remove", 0, NoKey, NoFrame, f, FALSE, FALSE)
    /\ prev' = last
    /\ UNCHANGED <<st, index, last_fni, indexFile, keyVars, libVars, clientVars, tigerVars>>

(* ------------------------------------------------------------------ *)
(* One cache instance on its directory                                 *)
(* ------------------------------------------------------------------ *)
FileIds == (BaseFni + 1)..(BaseFni + MaxAlloc)

NoKeyInput == [url |-> "", p1 |-> <<>>, p2 |-> <<>>]
NoKeyOutput == [done |-> FALSE, k1 |-> NoKey, k2 |-> NoKey]
\* No call of a module-level function yet.
NoCall == [f |-> "", x |-> <<>>]
NoReturn == [done |-> FALSE, raised |-> FALSE, v |-> <<>>]
InitNoCall == arg = NoCall /\ ret = NoReturn
\* No TigerDownloader object, an empty cache_dir for it, no call yet.
NoDownloader == [basename |-> "", dryrun |-> FALSE]
EmptyDir == [zip |-> EmptyMap, geojson |-> EmptyMap]
NoTigerCall ==
    [op |-> "none", cache |-> FALSE, answer |-> "", tool |-> "", net |-> <<>>,
     fetched |-> "", ofn |-> "", via |-> "", raised |-> FALSE, by |-> "",
     result |-> "", made |-> 0, simplify |-> FALSE]
InitNoTiger ==
    tiger = NoDownloader /\ tdir = EmptyDir /\ temps = {} /\ tlast = NoTigerCall

\* A cache constructed on an empty directory.
InitCache ==
    /\ st = [i \in Inst |-> IF i = 1 THEN "up" ELSE "none"]
    /\ index = [i \in Inst |-> EmptyMap]
    /\ last_fni = [i \in Inst |-> BaseFni]
    /\ indexFile = AbsentIndexFile
    /\ files = EmptyMap
    /\ last = Op("init", 1, NoKey, NoFrame, 0, FALSE, FALSE)
    /\ prev = NoOp

DatasetNames == {"ACSProfile5Y2015", "CBP2015"}
MaxAsked == 2
NoneAsked == [n \in DatasetNames |-> [ds |-> 0, vars |-> 0]]
OnceAsked(names) ==
    [n \in DatasetNames |-> IF n \in names THEN [ds |-> 1, vars |-> 1] ELSE [ds |-> 0, vars |-> 0]]
CountUp(n, requested) == IF requested /\ n < MaxAsked THEN n + 1 ELSE n

\* No CensusQuery object, and no descriptor or catalog file.
InitNoClient ==
    /\ api_key = [i \in Inst |-> PyNone]
    /\ dataset = [i \in Inst |-> ""]
    /\ catalog = [i \in Inst |-> EmptyMap]
    /\ dsFile = {}
    /\ varsFile = EmptyMap
    /\ default_get = <<>>
    /\ asked = NoneAsked

Init ==
    /\ InitCache
    /\ InitNoClient
    /\ kin = NoKeyInput
    /\ kout = NoKeyOutput
    /\ InitNoCall
    /\ InitNoTiger

Next ==
    \/ CacheInit(1)
    \/ \E key \in CacheKeys : Load(1, key)
    \/ \E key \in CacheKeys, df \in Datasets : Save(1, key, df)
    \/ \E f \in FileIds : RemoveFile(f)

Spec == Init /\ [][Next]_vars

(* ------------------------------------------------------------------ *)
(* Two cache instances on one directory                                *)
(* ------------------------------------------------------------------ *)
\* Two processes, or two CensusQuery objects of one process, each with its
\* own _QueryCache on the same cache_dir: each call runs to its end before
\* the next starts, in any order.
NextShared ==
    \/ \E i \in Inst : CacheInit(i)
    \/ \E i \in Inst, key \in CacheKeys : Load(i, key)
    \/ \E i \in Inst, key \in CacheKeys, df \in Datasets : Save(i, key, df)

SpecShared == Init /\ [][NextShared]_vars

(* ------------------------------------------------------------------ *)
(* The process dies inside _QueryCache.save                            *)
(* ------------------------------------------------------------------ *)
\* What a result file can hold when the process dies while to_csv writes it:
\* nothing, or the header and some of the lines.
CsvPrefixes(csv) ==
    {ZeroByteCsv} \cup
    {[header |-> csv.header, lines |-> SubSeq(csv.lines, 1, n)] : n \in 0..(Len(csv.lines) - 1)}

\* The directory a dying save would leave if it wrote the index file first.
SaveCrashDisksIndexFirst(fs, ixf, idx, fni, key, df) ==
    {[files |-> fs, indexFile |-> ixf]}
    \cup {[files |-> fs, indexFile |-> BrokenIndexFile]}
    \cup {[files |-> fs, indexFile |-> SaveIndexFile(idx, fni, key)]}
    \cup {[files |-> MapPut(fs, fni, part), indexFile |-> SaveIndexFile(idx, fni, key)] :
              part \in CsvPrefixes(to_csv(df))}
    \cup {[files |-> SaveFiles(fs, fni, df), indexFile |-> SaveIndexFile(idx, fni, key)]}
\* The directory the dying save leaves, by the statement it died at:
\* before to_csv, inside to_csv, between to_csv and the open() of the index
\* file, between that open() (which truncates the file) and the end of
\* json.dump, or after the index file is closed.
SaveCrashDisks(fs, ixf, idx, fni, key, df) ==
    {[files |-> fs, indexFile |-> ixf]}
    \cup {[files |-> MapPut(fs, fni, part), indexFile |-> ixf] : part \in CsvPrefixes(to_csv(df))}
    \cup {[files |-> SaveFiles(fs, fni, df), indexFile |-> ixf]}
    \cup {[files |-> SaveFiles(fs, fni, df), indexFile |-> BrokenIndexFile]}
    \cup {[files |-> SaveFiles(fs, fni, df), indexFile |-> SaveIndexFile(idx, fni, key)]}

CrashInSave(i, key, df) ==
    LET fni == SaveFni(index[i], last_fni[i], key) IN
    /\ st[i] = "up"
    /\ fni <= BaseFni + MaxAlloc
    /\ \E disk \in SaveCrashDisks(files, indexFile, index[i], fni, key, df) :
          /\ files' = disk.files
          /\ indexFile' = disk.indexFile
    /\ st' = [j \in Inst |-> "none"]
    /\ index' = [j \in Inst |-> EmptyMap]
    /\ last_fni' = [j \in Inst |-> BaseFni]
    /\ last' = Op("crash", i, key, df, fni, key \notin DOMAIN index[i], FALSE)
    /\ prev' = last
    /\ UNCHANGED <<keyVars, libVars, clientVars, tigerVars>>

NextCrash ==
    \/ Next
    \/ \E key \in CacheKeys, df \in Datasets : CrashInSave(1, key, df)

SpecCrash == Init /\ [][NextCrash]_vars

\* The same with no result file removed from outside: the cache, and the
\* process dying inside save, are all that touches the directory.
NextWrite ==
    \/ CacheInit(1)
    \/ \E key \in CacheKeys : Load(1, key)
    \/ \E key \in CacheKeys, df \in Datasets : Save(1, key, df)
    \/ \E key \in CacheKeys, df \in Datasets : CrashInSave(1, key, df)

SpecWrite == Init /\ [][NextWrite]_vars

(* ------------------------------------------------------------------ *)
(* make_key on its own: two calls with the same URL                    *)
(* ------------------------------------------------------------------ *)
ParmNames == {"for", "get", "key"}
ParmValues == {S("1"), S("2"), I("1"), PyNone}
\* The dicts of at most MaxParms items.
Dicts ==
    UNION {{d \in [1..n -> ParmNames \X ParmValues] :
                \A a, b \in 1..n : a # b => d[a][1] # d[b][1]} : n \in 0..MaxParms}

InitKey ==
    /\ InitCache
    /\ InitNoClient
    /\ kin \in [url : {Url}, p1 : Dicts, p2 : Dicts]
    /\ kout = NoKeyOutput
    /\ InitNoCall
    /\ InitNoTiger

ApplyMakeKey ==
    /\ ~kout.done
    /\ kout' = [done |-> TRUE,
                k1 |-> make_key(kin.url, kin.p1),
                k2 |-> make_key(kin.url, kin.p2)]
    /\ UNCHANGED <<cacheVars, last, prev, kin, clientVars, libVars, tigerVars>>

NextKey == ApplyMakeKey

SpecKey == InitKey /\ [][NextKey]_vars

(* ------------------------------------------------------------------ *)
(* CensusQuery: the constructor                                        *)
(* ------------------------------------------------------------------ *)
Credentials == {S("SECRET1"), S("SECRET2")}
\* What the Census server holds for a dataset: its access URL and its
\* variable catalog (variable name -> predicateType).
UrlOf(name) ==
    IF name = "ACSProfile5Y2015" THEN Url ELSE "https://api.census.gov/data/2015/cbp"
ServerCatalog(name) ==
    IF name = "ACSProfile5Y2015"
    THEN [v \in {"GEOID", "NAME", "X"} |-> IF v = "X" THEN "int" ELSE "string"]
    ELSE [v \in {"X"} |-> "int"]
\* check_response: a status other than 200 raises, a body with an 'error'
\* field raises.
Statuses == {"ok", "fail", "error"}
\* Whether check_response raises on a response: "fail" is a status code
\* other than 200, "error" a 200 whose body has an 'error' field.
CheckResponseStatusOnly(status) == status = "fail"
check_response(status) == status = "fail" \/ status = "error"

\* _load_cache: what the descriptor file and the catalog file give.
load_cache_dataset(name, df) == IF name \in df THEN name ELSE ""
LoadCacheVarsNever(name, vf) == EmptyMap
load_cache_vars(name, vf) == IF name \in DOMAIN vf THEN vf[name] ELSE EmptyMap
\* The catalog in the server's answer: "empty" is an answer with no variable.
FetchedVars(name, r2) == IF r2 = "empty" THEN EmptyMap ELSE ServerCatalog(name)
\* __init__: the query cache, then _load_cache, then _fetch_dataset and
\* _fetch_vars for what the files did not give (an empty catalog counts as
\* not given).  r1 and r2 are the server's answers to the two fetches.
CensusQueryInit(i, name, cred, r1, r2) ==
    LET ds0 == load_cache_dataset(name, dsFile)
        cat0 == load_cache_vars(name, varsFile)
        needDs == ds0 = ""
        needVars == DOMAIN cat0 = {}
        dsOk == ~needDs \/ ~check_response(r1)
        varsOk == ~needVars \/ ~check_response(r2)
        net == (IF needDs THEN <<"dataset">> ELSE <<>>)
               \o (IF dsOk /\ needVars THEN <<"vars">> ELSE <<>>)
        raised == InitRaises(indexFile) \/ ~dsOk \/ ~varsOk
    IN
    /\ IF InitRaises(indexFile)
       THEN /\ index' = [index EXCEPT ![i] = EmptyMap]
            /\ last_fni' = [last_fni EXCEPT ![i] = BaseFni]
            /\ dataset' = [dataset EXCEPT ![i] = ""]
            /\ catalog' = [catalog EXCEPT ![i] = EmptyMap]
            /\ UNCHANGED <<dsFile, varsFile, asked>>
            /\ last' = [Op("new", i, NoKey, NoFrame, 0, FALSE, TRUE) EXCEPT !.via = "raise"]
       ELSE /\ index' = [index EXCEPT ![i] = InitIndex(indexFile)]
            /\ last_fni' = [last_fni EXCEPT ![i] = InitLastFni(InitIndex(indexFile))]
            /\ dataset' = [dataset EXCEPT ![i] = IF dsOk THEN name ELSE ""]
            /\ catalog' = [catalog EXCEPT ![i] =
                              IF ~needVars THEN cat0
                              ELSE IF dsOk /\ varsOk THEN FetchedVars(name, r2)
                              ELSE EmptyMap]
            /\ dsFile' = IF needDs /\ dsOk THEN dsFile \cup {name} ELSE dsFile
            /\ varsFile' = IF dsOk /\ needVars /\ varsOk
                           THEN MapPut(varsFile, name, FetchedVars(name, r2))
                           ELSE varsFile
            /\ asked' = [asked EXCEPT
                              ![name] = [ds |-> CountUp(@.ds, needDs),
                                         vars |-> CountUp(@.vars, dsOk /\ needVars)]]
            /\ last' = [Op("new", i, NoKey, NoFrame, 0, FALSE, raised)
                          EXCEPT !.net = net, !.via = IF raised THEN "raise" ELSE "return"]
    /\ st' = [st EXCEPT ![i] = IF raised THEN "failed" ELSE "up"]
    /\ api_key' = [api_key EXCEPT ![i] = cred]
    /\ prev' = last
    /\ UNCHANGED <<indexFile, files, default_get, keyVars, libVars, tigerVars>>

(* ------------------------------------------------------------------ *)
(* CensusQuery.validate_predicate                                      *)
(* ------------------------------------------------------------------ *)
\* The 'fips' list of the geography rules document.
GeoDb ==
    << [name |-> "us", requires |-> <<>>],
       [name |-> "state", requires |-> <<>>],
       [name |-> "county", requires |-> <<"state">>],
       [name |-> "tract", requires |-> <<"state", "county">>] >>
SeqRange(q) == {q[j] : j \in 1..Len(q)}
\* reqs of one 'for' level, and whether one of them is the 'in' levels.
Requirements(fori) ==
    {GeoDb[j].requires : j \in {x \in 1..Len(GeoDb) : GeoDb[x].name = fori}}
ForOk(fori, in_clause) ==
    \E req \in Requirements(fori) :
        SortedNames(SeqRange(req)) = SortedNames(DictKeys(in_clause))
validate_predicate(for_clause, in_clause) ==
    \A fori \in DictKeys(for_clause) : ForOk(fori, in_clause)

(* ------------------------------------------------------------------ *)
(* CensusQuery.query                                                   *)
(* ------------------------------------------------------------------ *)
\* ' '.join('{}:{}'.format(k, v) for k, v in clause.items())
RECURSIVE JoinClause(_)
JoinClause(d) ==
    IF d = <<>> THEN ""
    ELSE d[1][1] \o ":" \o d[1][2].s
         \o (IF Len(d) > 1 THEN " " \o JoinClause(Tail(d)) ELSE "")

\* sorted(get_clause) and ','.join(...)
RECURSIVE InsertSorted(_, _)
InsertSorted(q, x) ==
    IF q = <<>> THEN <<x>>
    ELSE IF StrRank(x) < StrRank(q[1]) THEN <<x>> \o q
    ELSE <<q[1]>> \o InsertSorted(Tail(q), x)
RECURSIVE sorted(_)
sorted(q) == IF q = <<>> THEN <<>> ELSE InsertSorted(sorted(Tail(q)), q[1])
RECURSIVE JoinComma(_)
JoinComma(q) ==
    IF q = <<>> THEN ""
    ELSE q[1] \o (IF Len(q) > 1 THEN "," \o JoinComma(Tail(q)) ELSE "")

\* GEOID and NAME are appended to the list when the catalog knows them.
AppendIfKnown(g, cat, f) ==
    IF f \notin SeqRange(g) /\ f \in DOMAIN cat THEN Append(g, f) ELSE g
NormGet(g, cat) == AppendIfKnown(AppendIfKnown(g, cat, "GEOID"), cat, "NAME")

\* parms: the extra parameters, then get, for and in where not empty, then key.
SetIfText(d, k, text) == IF text # "" THEN DictSet(d, k, S(text)) ELSE d
QueryParms(cred, a, g) ==
    DictSet(
        SetIfText(
            SetIfText(
                SetIfText(DictUpdate(<<>>, a.parameters), "get", JoinComma(sorted(g))),
                "for", JoinClause(a.for)),
            "in", JoinClause(a.in)),
        "key", cred)

\* pd.to_numeric on the columns the catalog types as int among the fields
\* asked for; a column that does not convert is left as it is.
CoerceColumn(df, c) ==
    /\ Len(df.rows) > 0
    /\ \A r \in 1..Len(df.rows) : ParseInt(df.rows[r][c].s) # ""
Coerce(df, cat, g) ==
    Frame(df.cols,
          [r \in 1..Len(df.rows) |->
              [c \in 1..Len(df.cols) |->
                  IF /\ df.cols[c] \in DOMAIN cat
                     /\ df.cols[c] \in SeqRange(g)
                     /\ cat[df.cols[c]] = "int"
                     /\ CoerceColumn(df, c)
                  THEN I(ParseInt(df.rows[r][c].s))
                  ELSE df.rows[r][c]]])

\* The rows of strings a response body can hold under its header.
RawFrames ==
    UNION {{Frame(<<"NAME", "X">>, rows) :
                rows \in [1..n -> {<<S("a"), S(c)>> : c \in {"a", "06"}}]} : n \in 1..MaxRows}
NoBody == Frame(<<>>, <<>>)
Responses ==
    [status : {"ok"}, body : RawFrames] \cup [status : Statuses \ {"ok"}, body : {NoBody}]

\* 'if cache:' before the lookup and before the save.
UseCacheAlways(a) == TRUE
UseCache(a) == a.cache

\* One call of query by instance i: a are the arguments, geo the server's
\* answer to the geography rules request, resp its answer to the data
\* request; g is get_clause after GEOID and NAME were appended, parms the
\* parameter set and key the cache key.  The result names everything the
\* call leaves behind.
QueryOutcome(i, a, geo, resp, g, parms, key) ==
    LET guard == a.for # <<>> /\ a.in # <<>>
        idx1 == IF UseCache(a) THEN LoadIndex(index[i], files, key) ELSE index[i]
        hit == IF UseCache(a) THEN LoadFrame(index[i], files, key) ELSE NoFrame
        df == Coerce(resp.body, catalog[i], g)
        fni == SaveFni(idx1, last_fni[i], key)
        same == [index |-> index[i], last_fni |-> last_fni[i], files |-> files,
                 indexFile |-> indexFile, default_get |-> default_get,
                 df |-> NoFrame, key |-> NoKey, fn |-> 0, fresh |-> FALSE,
                 raised |-> FALSE, sent |-> <<>>, net |-> <<>>, via |-> "", fni |-> 0]
        geonet == IF guard THEN <<"geo">> ELSE <<>>
        built == [same EXCEPT !.default_get = IF a.omitted THEN g ELSE default_get,
                              !.sent = parms, !.net = geonet,
                              !.key = IF UseCache(a) THEN key ELSE NoKey,
                              !.fresh = UseCache(a) /\ key \notin DOMAIN index[i],
                              !.fn = IF UseCache(a) THEN LoadFn(index[i], key) ELSE 0,
                              !.index = idx1]
    IN
    IF guard /\ check_response(geo)
    THEN [same EXCEPT !.net = <<"geo">>, !.raised = TRUE, !.via = "raise"]
    ELSE IF guard /\ ~validate_predicate(a.for, a.in)
    THEN [same EXCEPT !.net = <<"geo">>, !.df = EmptyFrame, !.via = "guard"]
    ELSE IF UseCache(a) /\ LoadRaises(index[i], files, key)
    THEN [built EXCEPT !.raised = TRUE, !.via = "raise"]
    ELSE IF hit.isdf
    THEN [built EXCEPT !.df = hit, !.via = "cache"]
    ELSE IF check_response(resp.status)
    THEN [built EXCEPT !.net = geonet \o <<"data">>, !.raised = TRUE, !.via = "raise"]
    ELSE IF ~UseCache(a)
    THEN [built EXCEPT !.net = geonet \o <<"data">>, !.df = df, !.via = "net"]
    ELSE [built EXCEPT !.net = geonet \o <<"data">>, !.df = df, !.via = "net",
                       !.fn = fni, !.fni = fni,
                       !.files = SaveFiles(files, fni, df),
                       !.index = SaveIndex(idx1, fni, key),
                       !.last_fni = SaveLastFni(last_fni[i], fni),
                       !.indexFile = SaveIndexFile(idx1, fni, key)]

\* The same arguments but for the cache flag.
SameRequest(a, b) == [a EXCEPT !.cache = FALSE] = [b EXCEPT !.cache = FALSE]

Query(i, a, geo, resp) ==
    \E g \in {NormGet(IF a.omitted THEN default_get ELSE a.get, catalog[i])} :
    \E parms \in {QueryParms(api_key[i], a, g)} :
    \E key \in {make_key(UrlOf(dataset[i]), parms)} :
    \E o \in {QueryOutcome(i, a, geo, resp, g, parms, key)} :
    /\ st[i] = "up"
    /\ o.fni <= BaseFni + MaxAlloc
    /\ index' = [index EXCEPT ![i] = o.index]
    /\ last_fni' = [last_fni EXCEPT ![i] = o.last_fni]
    /\ files' = o.files
    /\ indexFile' = o.indexFile
    /\ default_get' = o.default_get
    /\ last' = [Op("query", i, o.key, o.df, o.fn, o.fresh, o.raised)
                  EXCEPT !.args = a, !.sent = o.sent, !.net = o.net, !.via = o.via,
                         !.env = [geo |-> IF "geo" \in SeqRange(o.net) THEN geo ELSE "",
                                  resp |-> IF "data" \in SeqRange(o.net) THEN resp
                                           ELSE NoAnswer]]
    /\ prev' = IF last.op = "query" /\ last.inst = i /\ SameRequest(last.args, a)
               THEN [last EXCEPT !.env = NoAnswers] ELSE NoOp
    /\ UNCHANGED <<st, api_key, dataset, catalog, dsFile, varsFile, asked, keyVars, libVars, tigerVars>>

(* ------------------------------------------------------------------ *)
(* One CensusQuery on its cache directory                              *)
(* ------------------------------------------------------------------ *)
\* The calls of the model: the fields X, for a county with and without its
\* state, and for a state inside a state (which the geography rules refuse).
GetLists == {<<"X">>}
Clauses ==
    { << << <<"county", S("*")>> >>, <<>> >>,
      << << <<"county", S("*")>> >>, << <<"state", S("06")>> >> >>,
      << << <<"state", S("*")>> >>, << <<"state", S("06")>> >> >> }
QueryArgs ==
    {[omitted |-> FALSE, get |-> g, for |-> c[1], in |-> c[2],
      parameters |-> <<>>, cache |-> b] : g \in GetLists, c \in Clauses, b \in BOOLEAN}
\* The server is asked for the geography rules only by a call with both
\* clauses, and for the data only by a call that got past the rules.
GeoAnswers(a) == IF a.for # <<>> /\ a.in # <<>> THEN Statuses ELSE {"ok"}
DataAnswers(a, geo) ==
    IF a.for # <<>> /\ a.in # <<>> /\ (geo # "ok" \/ ~validate_predicate(a.for, a.in))
    THEN {[status |-> "ok", body |-> NoBody]}
    ELSE Responses

\* A CensusQuery constructed on an empty directory, the server answering.
InitQuery ==
    /\ st = [i \in Inst |-> IF i = 1 THEN "up" ELSE "none"]
    /\ index = [i \in Inst |-> EmptyMap]
    /\ last_fni = [i \in Inst |-> BaseFni]
    /\ indexFile = AbsentIndexFile
    /\ files = EmptyMap
    /\ \E cred \in Credentials :
          api_key = [i \in Inst |-> IF i = 1 THEN cred ELSE PyNone]
    /\ dataset = [i \in Inst |-> IF i = 1 THEN "ACSProfile5Y2015" ELSE ""]
    /\ catalog = [i \in Inst |-> IF i = 1 THEN ServerCatalog("ACSProfile5Y2015") ELSE EmptyMap]
    /\ dsFile = {"ACSProfile5Y2015"}
    /\ varsFile = MapPut(EmptyMap, "ACSProfile5Y2015", ServerCatalog("ACSProfile5Y2015"))
    /\ default_get = <<>>
    /\ asked = OnceAsked({"ACSProfile5Y2015"})
    /\ last = [Op("new", 1, NoKey, NoFrame, 0, FALSE, FALSE)
                 EXCEPT !.net = <<"dataset", "vars">>, !.via = "return"]
    /\ prev = NoOp
    /\ kin = NoKeyInput
    /\ kout = NoKeyOutput
    /\ InitNoCall
    /\ InitNoTiger

NextQuery ==
    \/ \E cred \in Credentials :
          CensusQueryInit(1, "ACSProfile5Y2015", cred, "ok", "ok")
    \/ \E a \in QueryArgs : \E geo \in GeoAnswers(a) : \E resp \in DataAnswers(a, geo) :
          Query(1, a, geo, resp)
    \/ \E f \in FileIds : RemoveFile(f)

SpecQuery == InitQuery /\ [][NextQuery]_vars

(* ------------------------------------------------------------------ *)
(* One request written in several orders                               *)
(* ------------------------------------------------------------------ *)
\* The orders a list of two fields and a dict of two items can be given in.
Orders(x, y) == {<<x, y>>, <<y, x>>}
\* The tracts of a county, asked for with the fields, the 'in' items and
\* the extra parameters in each of their orders.
OrderArgs ==
    {[omitted |-> FALSE, get |-> g, for |-> << <<"tract", S("*")>> >>, in |-> c,
      parameters |-> p, cache |-> TRUE] :
        g \in Orders("X", "NAME"),
        c \in Orders(<<"state", S("06")>>, <<"county", S("037")>>),
        p \in Orders(<<"time", S("2015")>>, <<"descriptive", S("true")>>)}

NextOrder ==
    \E a \in OrderArgs : \E geo \in GeoAnswers(a) : \E resp \in DataAnswers(a, geo) :
        Query(1, a, geo, resp)

SpecOrder == InitQuery /\ [][NextOrder]_vars

(* ------------------------------------------------------------------ *)
(* Claims about the cache (specification Spec)                         *)
(* ------------------------------------------------------------------ *)
\* last is a load that directly follows a save of the same key by the same cache.
LoadAfterSave ==
    /\ last.op = "load" /\ prev.op = "save"
    /\ last.key = prev.key /\ last.inst = prev.inst

\* C1: save(key, d) for a key that was not in the index, followed by
\* load(key), returns a frame with exactly the columns of d, in d's order,
\* with d's number of rows and d's values.
C1_RoundTripExact ==
    (LoadAfterSave /\ prev.fresh) =>
        /\ last.df.isdf
        /\ last.df.cols = prev.df.cols
        /\ Len(last.df.rows) = Len(prev.df.rows)
        /\ last.df.rows = prev.df.rows

\* C3: a save of a key directly after a save of the same key writes the same
\* FileId, adds no index entry and no result file, leaves the file holding
\* the second frame only, and a load that follows returns what that file holds.
C3_Step ==
    /\ (/\ last.op = "save" /\ last'.op = "save"
        /\ last'.key = last.key /\ last'.inst = last.inst)
       => /\ last'.fn = last.fn
          /\ Cardinality(DOMAIN index'[last.inst]) = Cardinality(DOMAIN index[last.inst])
          /\ Cardinality(DOMAIN files') = Cardinality(DOMAIN files)
          /\ DOMAIN files' = DOMAIN files
          /\ files'[last.fn] = to_csv(last'.df)
          /\ indexFile'.map = indexFile.map
    /\ (/\ last.op = "save" /\ ~last.fresh /\ last'.op = "load"
        /\ last'.key = last.key /\ last'.inst = last.inst)
       => /\ last'.fn = last.fn
          /\ last'.df = read_csv(to_csv(last.df))
C3_OverwriteOnResave == [][C3_Step]_vars
C3_Witness ==
    /\ last.op = "save" /\ prev.op = "save"
    /\ last.key = prev.key /\ last.inst = prev.inst
    /\ last.df # prev.df
    /\ Cardinality(DOMAIN index[last.inst]) = 2

\* C4: load of a key whose result file is gone returns None and does not
\* raise; a save of that key that follows writes a FileId that no other key
\* of the index holds, and a load after it returns what the save wrote.
StaleLoad(o) == o.op = "load" /\ ~o.fresh /\ ~o.df.isdf /\ ~o.raised
C4_Step ==
    /\ (last'.op = "load" /\ Stale(index[last'.inst], files, last'.key))
       => (last'.df = NoFrame /\ ~last'.raised)
    /\ (/\ StaleLoad(last) /\ last'.op = "save"
        /\ last'.key = last.key /\ last'.inst = last.inst)
       => /\ \A k \in DOMAIN index[last.inst] \ {last.key} :
                index[last.inst][k] # last'.fn
          /\ \A k \in DOMAIN index'[last.inst] \ {last.key} :
                /\ index'[last.inst][k] = index[last.inst][k]
                /\ index'[last.inst][k] \in DOMAIN files
                     => files'[index'[last.inst][k]] = files[index[last.inst][k]]
          /\ LoadFrame(index'[last.inst], files', last.key) = read_csv(to_csv(last'.df))
    /\ (/\ last.op = "save" /\ prev.op = "load" /\ StaleLoad(prev)
        /\ prev.key = last.key /\ prev.inst = last.inst
        /\ last'.op = "load" /\ last'.key = last.key /\ last'.inst = last.inst)
       => last'.df = read_csv(to_csv(last.df))
C4_StaleRecovery == [][C4_Step]_vars
C4_Witness ==
    /\ last.op = "save" /\ prev.op = "load" /\ StaleLoad(prev)
    /\ last.key = prev.key /\ last.inst = prev.inst
    /\ Cardinality(DOMAIN index[last.inst]) = 2
    /\ LoadFrame(index[last.inst], files, last.key) = read_csv(to_csv(last.df))

\* C5: in every state a single cache reaches, no two keys of its index hold
\* the same FileId, and last_fni + 1 is greater than every FileId of the index.
Injective(f) == \A a, b \in DOMAIN f : a # b => f[a] # f[b]
C5_IndexInvariant ==
    st[1] = "up" =>
        /\ Injective(index[1])
        /\ \A k \in DOMAIN index[1] : index[1][k] < last_fni[1] + 1
C5_Witness ==
    /\ last.op = "init" /\ prev.op = "load" /\ StaleLoad(prev)
    /\ Cardinality(DOMAIN index[1]) = 2
    /\ last_fni[1] = BaseFni + MaxAlloc

\* C10: load of a key that is not in the index returns None with an empty
\* location, raises nothing, and changes neither the index, last_fni, the
\* index file nor any result file.
C10_Step ==
    (last'.op = "load" /\ last'.key \notin DOMAIN index[last'.inst])
        => /\ last'.df = NoFrame
           /\ last'.fn = 0
           /\ ~last'.raised
           /\ UNCHANGED <<st, index, last_fni, indexFile, files>>
C10_OrdinaryMiss == [][C10_Step]_vars
C10_Witness ==
    /\ last.op = "load" /\ last.fresh
    /\ DOMAIN files # {} /\ DOMAIN index[last.inst] # {}

(* ------------------------------------------------------------------ *)
(* Claims about a crash inside save (specification SpecCrash)          *)
(* ------------------------------------------------------------------ *)
\* C6: wherever the process dies inside save(key, d), the directory it
\* leaves is one on which a new cache loads the index without error, and
\* every other key the index file held before that save still maps to its
\* FileId and loads the frame it loaded before.
C6_Step ==
    /\ last'.op = "crash" =>
          /\ ~InitRaises(indexFile')
          /\ \A k \in DOMAIN indexFile.map \ {last'.key} :
                /\ k \in DOMAIN InitIndex(indexFile')
                /\ InitIndex(indexFile')[k] = indexFile.map[k]
                /\ LoadFrame(InitIndex(indexFile'), files', k)
                     = LoadFrame(indexFile.map, files, k)
    /\ (last.op = "crash" /\ last'.op = "init") =>
          /\ ~last'.raised
          /\ st'[last'.inst] = "up"
C6_CrashSafeIndex == [][C6_Step]_vars

(* ------------------------------------------------------------------ *)
(* Claims about make_key (specification SpecKey)                       *)
(* ------------------------------------------------------------------ *)
\* The parameters other than the credential, as (name, value) pairs.
NonCredential(d) == {it \in DictItems(d) : it[1] # "key"}
\* The parameters other than the credential that the request carries: the
\* ones whose value is not None, each with the text of its value.
Sent(d) == {<<it[1], it[2].s>> : it \in {x \in NonCredential(d) : x[2].t # "none"}}

\* C8: two parameter mappings with the same set of (name, value) pairs give
\* the same key, whatever order the pairs were inserted in.
C8_OrderInsensitive ==
    (kout.done /\ DictItems(kin.p1) = DictItems(kin.p2)) => kout.k1 = kout.k2
C8_Witness ==
    /\ kout.done
    /\ DictItems(kin.p1) = DictItems(kin.p2)
    /\ kin.p1 # kin.p2
    /\ Len(kout.k1.query) = 2
    /\ kout.k1 = kout.k2

\* C9 as stated: two parameter mappings that differ in the presence or the
\* value of a parameter other than the credential give different keys.
C9_InjectiveOnMappings ==
    (kout.done /\ NonCredential(kin.p1) # NonCredential(kin.p2)) => kout.k1 # kout.k2

\* C9 as amended: two parameter mappings whose parameters other than the
\* credential, as the request carries them (a parameter whose value is None
\* is not sent, any other value is sent as its text), differ in presence or
\* value give different keys.
C9_InjectiveOnSent ==
    (kout.done /\ Sent(kin.p1) # Sent(kin.p2)) => kout.k1 # kout.k2
C9_Witness ==
    /\ kout.done
    /\ DictKeys(kin.p1) = DictKeys(kin.p2)
    /\ Cardinality(DictKeys(kin.p1) \ {"key"}) = 2
    /\ Sent(kin.p1) # Sent(kin.p2)
    /\ kout.k1 # kout.k2

(* ------------------------------------------------------------------ *)
(* Claims about query (specification SpecQuery)                        *)
(* ------------------------------------------------------------------ *)
\* last is a query that directly follows a query of the same CensusQuery
\* with the same arguments (but for the cache flag) that fetched its data
\* from the server and returned it.
RepeatAfterFetch ==
    /\ last.op = "query" /\ prev.op = "query"
    /\ last.inst = prev.inst
    /\ SameRequest(prev.args, last.args)
    /\ prev.via = "net"
BothClauses(a) == a.for # <<>> /\ a.in # <<>>

KeyClean(k) ==
    \A j \in 1..Len(k.query) :
        /\ k.query[j][1] # "key"
        /\ \A c \in Credentials : k.query[j][2] # c.s
OutcomeWith(cred, o) ==
    LET g == NormGet(IF o.args.omitted THEN default_get ELSE o.args.get, catalog[o.inst])
        parms == QueryParms(cred, o.args, g)
        geo == IF o.env.geo = "" THEN "ok" ELSE o.env.geo
    IN  QueryOutcome(o.inst, o.args, geo, o.env.resp, g, parms,
                     make_key(UrlOf(dataset[o.inst]), parms))
C7_Step ==
    /\ \A k \in DOMAIN indexFile'.map \cup DOMAIN index'[1] \cup {last'.key} :
          KeyClean(k)
    /\ last'.op = "query" =>
          \A c \in Credentials \ {api_key[last'.inst]} :
              \E o \in {OutcomeWith(c, last')} :
                  /\ o.key = last'.key
                  /\ o.indexFile = indexFile'
                  /\ o.files = files'
                  /\ o.index = index'[last'.inst]
                  /\ o.df = last'.df
C7_CredentialNonInterference == [][C7_Step]_vars
C7_Witness ==
    /\ last.op = "query" /\ last.via = "net" /\ last.args.cache
    /\ DictGet(last.sent, "key") = S("SECRET2")
    /\ last.key \in DOMAIN indexFile.map
    /\ Cardinality(DOMAIN indexFile.map) = 2

\* C11: a query that requested the data and got a response with a status
\* other than success, or a success whose body has an 'error' field,
\* raises, returns no dataset, and leaves the index file and the result
\* files as they were before the call.
FailedFetch(o) ==
    /\ o.op = "query"
    /\ "data" \in SeqRange(o.net)
    /\ o.env.resp.status \in {"fail", "error"}
C11_Step ==
    FailedFetch(last') =>
        /\ last'.raised
        /\ last'.df = NoFrame
        /\ indexFile' = indexFile
        /\ files' = files
C11_FailedFetchCachesNothing == [][C11_Step]_vars
\* The body carried an error under a success status, with caching enabled,
\* for a key whose result file had been removed: the call dropped the key
\* from its index in memory and the index file still holds it.
C11_Witness ==
    /\ FailedFetch(last)
    /\ last.env.resp.status = "error"
    /\ last.args.cache
    /\ last.raised
    /\ last.key \in DOMAIN indexFile.map
    /\ last.key \notin DOMAIN index[last.inst]

\* A query with caching enabled that missed and fetched has, when it
\* returns, its key in the index in memory and in the index file, both
\* naming the result file that holds the returned dataset.
WrittenThrough ==
    (last.op = "query" /\ last.args.cache /\ last.via = "net") =>
        /\ last.key \in DOMAIN index[last.inst]
        /\ indexFile.exists
        /\ last.key \in DOMAIN indexFile.map
        /\ indexFile.map[last.key] = index[last.inst][last.key]
        /\ index[last.inst][last.key] \in DOMAIN files
        /\ files[index[last.inst][last.key]] = to_csv(last.df)
CachedRepeat == RepeatAfterFetch /\ prev.args.cache /\ last.args.cache

\* C12 as stated: write-through on a miss, and the directly following
\* query with the same arguments and caching enabled is served from the
\* cache and issues no request for the data.
C12_RepeatServedFromCache ==
    /\ WrittenThrough
    /\ CachedRepeat => (last.via = "cache" /\ "data" \notin SeqRange(last.net))

\* C12 as amended: write-through on a miss, and the directly following
\* query with the same arguments and caching enabled issues no request for
\* the data; it is served from the cache unless both clauses are given and
\* its request for the geography rules fails, in which case it raises.
C12_WriteThroughOnMiss ==
    /\ WrittenThrough
    /\ CachedRepeat =>
          /\ "data" \notin SeqRange(last.net)
          /\ \/ last.via = "cache"
             \/ /\ last.raised
                /\ BothClauses(last.args)
                /\ check_response(last.env.geo)
C12_Witness ==
    /\ CachedRepeat
    /\ ~BothClauses(last.args)
    /\ last.via = "cache"
    /\ last.net = <<>>
    /\ prev.fresh
    /\ Cardinality(DOMAIN indexFile.map) = 2

(* ------------------------------------------------------------------ *)
(* Claims about the FileId counter (specification Spec)                *)
(* ------------------------------------------------------------------ *)
Allocating == last'.op = "save" /\ last'.fresh

\* C13 as stated: a save of a key that is not in the index allocates the
\* baseline 1001 if the index is empty at that moment, and otherwise one
\* more than the greatest FileId in the index.
C13_StepFromIndex ==
    Allocating =>
        last'.fn = IF DOMAIN index[last'.inst] = {} THEN BaseFni
                   ELSE MaxOf(Range(index[last'.inst])) + 1
C13_AllocFromIndex == [][C13_StepFromIndex]_vars

\* C13 as amended: a save of a key that is not in the index allocates one
\* more than last_fni, the counter that starts at 1001 on an empty index
\* and at the greatest FileId of a loaded index, and never decreases; the
\* id is above 1001 and above every FileId in the index.
C13_StepFromCounter ==
    /\ last_fni'[1] >= last_fni[1] \/ last'.op = "init"
    /\ last'.op = "init" /\ ~last'.raised =>
          last_fni'[1] = IF DOMAIN index'[1] = {} THEN BaseFni
                         ELSE MaxOf(Range(index'[1]))
    /\ Allocating =>
          /\ last'.fn = last_fni[last'.inst] + 1
          /\ last'.fn > BaseFni
          /\ \A f \in Range(index[last'.inst]) : f < last'.fn
C13_AllocFromCounter == [][C13_StepFromCounter]_vars
\* A key saved into an index that load had emptied: the id is 1003.
C13_Witness ==
    /\ last.op = "save" /\ last.fresh
    /\ DOMAIN index[last.inst] = {last.key}
    /\ last.fn = BaseFni + 2

(* ------------------------------------------------------------------ *)
(* Claims about the geography guard (specification SpecQuery)          *)
(* ------------------------------------------------------------------ *)
\* C14: a query with a non-empty for_clause whose in_clause levels (the
\* empty in_clause included) are not a combination the geography rules
\* require for each level of the for_clause returns an empty dataset
\* without raising, requests no data, and neither reads nor writes the
\* query cache.  Stated for calls whose rules request, if one is made, is
\* answered.
IllegalClauses(a) == a.for # <<>> /\ ~validate_predicate(a.for, a.in)
C14_Step ==
    (/\ last'.op = "query"
     /\ IllegalClauses(last'.args)
     /\ ~check_response(last'.env.geo)) =>
        /\ ~last'.raised
        /\ last'.df = EmptyFrame
        /\ "data" \notin SeqRange(last'.net)
        /\ last'.key = NoKey
        /\ UNCHANGED <<index, last_fni, indexFile, files>>
C14_AdvisoryGuard == [][C14_Step]_vars

(* ------------------------------------------------------------------ *)
(* Two CensusQuery objects in one process                              *)
(* ------------------------------------------------------------------ *)
\* Two CensusQuery objects of one process on one cache directory, the first
\* on a dataset whose catalog has GEOID and NAME, the second on one whose
\* catalog has neither; calls pass a field list or omit it, and the list a
\* call omits is the one list object of the function definition.
FieldLists == {<<>>, <<"X">>, <<"NAME">>}
FieldArgs ==
    {[omitted |-> FALSE, get |-> g, for |-> << <<"county", S("*")>> >>, in |-> <<>>,
      parameters |-> <<>>, cache |-> FALSE] : g \in FieldLists}
    \cup {[omitted |-> TRUE, get |-> <<>>, for |-> << <<"county", S("*")>> >>,
           in |-> <<>>, parameters |-> <<>>, cache |-> FALSE]}
DatasetOf(i) == IF i = 1 THEN "ACSProfile5Y2015" ELSE "CBP2015"
InitFields ==
    /\ st = [i \in Inst |-> "up"]
    /\ index = [i \in Inst |-> EmptyMap]
    /\ last_fni = [i \in Inst |-> BaseFni]
    /\ indexFile = AbsentIndexFile
    /\ files = EmptyMap
    /\ api_key = [i \in Inst |-> S("SECRET1")]
    /\ dataset = [i \in Inst |-> DatasetOf(i)]
    /\ catalog = [i \in Inst |-> ServerCatalog(DatasetOf(i))]
    /\ dsFile = DatasetNames
    /\ varsFile = [n \in DatasetNames |-> ServerCatalog(n)]
    /\ default_get = <<>>
    /\ asked = OnceAsked(DatasetNames)
    /\ last = [Op("new", 2, NoKey, NoFrame, 0, FALSE, FALSE)
                 EXCEPT !.net = <<"dataset", "vars">>, !.via = "return"]
    /\ prev = NoOp
    /\ kin = NoKeyInput
    /\ kout = NoKeyOutput
    /\ InitNoCall
    /\ InitNoTiger
NextFields ==
    \E i \in Inst : \E a \in FieldArgs : \E resp \in Responses : Query(i, a, "ok", resp)
SpecFields == InitFields /\ [][NextFields]_vars

\* C15: the 'get' parameter of every request holds exactly the fields the
\* caller passed to that call (none when the call omits the list) plus
\* GEOID and NAME, each only if absent from the caller's list and present
\* in the catalog of the instance.
Passed(a) == IF a.omitted THEN <<>> ELSE a.get
GetOf(d) == SelectSeq(d, LAMBDA item : item[1] = "get")
C15_FieldNormalization ==
    (last.op = "query" /\ last.sent # <<>>) =>
        GetOf(last.sent) =
            SetIfText(<<>>, "get",
                      JoinComma(sorted(NormGet(Passed(last.args), catalog[last.inst]))))

(* ------------------------------------------------------------------ *)
(* censusbuddy.strip_prefix                                            *)
(* ------------------------------------------------------------------ *)
\* A string is a sequence of characters, a series a sequence of strings.
MaxStr == 3
MaxSeries == 2
Alphabet == {"a", "b"}
Strings == UNION {[1..n -> Alphabet] : n \in 0..MaxStr}
SeriesSet == UNION {[1..n -> Strings] : n \in 1..MaxSeries}

\* series.str[i]: the character at i, NaN for a string that has none.
maxlen == 100
NaN == "NaN"
CharAt(str, i) == IF i <= Len(str) THEN str[i] ELSE NaN
StrColumn(series, i) == {CharAt(series[j], i) : j \in 1..Len(series)}

\* The loop that builds prefix.  A column of nothing but NaN is a set of one
\* NaN for a series of one string, and prefix += NaN raises TypeError; for
\* a longer series the NaNs are one object or several by the array type
\* pandas returns, so the loop raises or breaks.
RECURSIVE PrefixScan(_, _, _)
PrefixScan(series, i, prefix) ==
    IF i > maxlen THEN {[raised |-> FALSE, prefix |-> prefix]}
    ELSE IF StrColumn(series, i) = {NaN}
    THEN IF Len(series) = 1
         THEN {[raised |-> TRUE, prefix |-> prefix]}
         ELSE {[raised |-> TRUE, prefix |-> prefix], [raised |-> FALSE, prefix |-> prefix]}
    ELSE IF Cardinality(StrColumn(series, i)) > 1
    THEN {[raised |-> FALSE, prefix |-> prefix]}
    ELSE PrefixScan(series, i + 1, Append(prefix, CharAt(series[1], i)))

\* str.replace(prefix, ''): every occurrence, left to right.
RECURSIVE ReplaceAll(_, _)
ReplaceAll(str, pat) ==
    IF pat = <<>> \/ Len(str) < Len(pat) THEN str
    ELSE IF SubSeq(str, 1, Len(pat)) = pat
    THEN ReplaceAll(SubSeq(str, Len(pat) + 1, Len(str)), pat)
    ELSE <<str[1]>> \o ReplaceAll(Tail(str), pat)

strip_prefix(series) ==
    {IF o.raised THEN [done |-> TRUE, raised |-> TRUE, v |-> <<>>]
     ELSE [done |-> TRUE, raised |-> FALSE,
           v |-> [j \in 1..Len(series) |-> ReplaceAll(series[j], o.prefix)]] :
        o \in PrefixScan(series, 1, <<>>)}

InitStrip ==
    /\ InitCache
    /\ InitNoClient
    /\ kin = NoKeyInput
    /\ kout = NoKeyOutput
    /\ arg \in [f : {"strip_prefix"}, x : SeriesSet]
    /\ ret = NoReturn
    /\ InitNoTiger
ApplyStripPrefix ==
    /\ arg.f = "strip_prefix"
    /\ ~ret.done
    /\ ret' \in strip_prefix(arg.x)
    /\ UNCHANGED <<cacheVars, last, prev, keyVars, clientVars, arg, tigerVars>>
NextStrip == ApplyStripPrefix
SpecStrip == InitStrip /\ [][NextStrip]_vars

\* C16: for every non-empty series, strip_prefix returns each string with
\* the longest prefix common to all strings of the series removed from its
\* start, and the rest of the string unchanged.
IsCommonPrefix(series, n) ==
    \A j \in 1..Len(series) :
        /\ Len(series[j]) >= n
        /\ SubSeq(series[j], 1, n) = SubSeq(series[1], 1, n)
CommonLen(series) ==
    CHOOSE n \in 0..Len(series[1]) :
        /\ IsCommonPrefix(series, n)
        /\ \A m \in (n + 1)..Len(series[1]) : ~IsCommonPrefix(series, m)
C16_StripsSharedPrefixOnly ==
    (arg.f = "strip_prefix" /\ ret.done) =>
        /\ ~ret.raised
        /\ ret.v = [j \in 1..Len(arg.x) |->
                       SubSeq(arg.x[j], CommonLen(arg.x) + 1, Len(arg.x[j]))]

(* ------------------------------------------------------------------ *)
(* censusbuddy.merge_frames                                            *)
(* ------------------------------------------------------------------ *)
MaxFrameRows == 2
\* A column is <<name, suffix>>; a GEOID is a sequence of characters.
Col(name) == <<name, "">>
CenCols == <<Col("GEOID"), Col("NAME"), Col("X")>>
GeoCols == <<Col("GEOID"), Col("NAME"), Col("G")>>
CenGeoIds ==
    { <<"0", "4", "U", "S", "0", "6">>, <<"0", "4", "U", "S", "3", "6">>,
      <<"U", "S", "U", "S", "0", "6">>, <<"0", "6">> }
GeoGeoIds == { <<"0", "6">>, <<"3", "6">> }
CenFrames ==
    UNION {{Frame(CenCols, rows) :
                rows \in [1..n -> {<<g, "census", x>> : g \in CenGeoIds, x \in {"1", "2"}}]} :
           n \in 0..MaxFrameRows}
GeoFrames ==
    UNION {{Frame(GeoCols, rows) :
                rows \in [1..n -> {<<g, nm, "shape">> : g \in GeoGeoIds, nm \in {"tiger", "other"}}]} :
           n \in 0..MaxFrameRows}

\* str.replace(r'^.*US', ''): the match is greedy, it ends at the last US.
UsAt(str) == {k \in 1..(Len(str) - 1) : str[k] = "U" /\ str[k + 1] = "S"}
ReplaceNothing(str) == str
StripUS(str) ==
    IF UsAt(str) = {} THEN str
    ELSE SubSeq(str, MaxOf(UsAt(str)) + 2, Len(str))

ColNames(cols) == {cols[c][1] : c \in 1..Len(cols)}
ColIndex(cols, name) == CHOOSE c \in 1..Len(cols) : cols[c][1] = name
\* pandas.merge(left, right, on=key, suffixes=('_DELETEME', '')): an inner
\* join, the left rows in their order and under each its matches in the
\* order of the right rows; a column name of both frames gets the suffix on
\* the left, and the key column comes once.
MergeCols(left, right, key) ==
    [c \in 1..Len(left.cols) |->
        IF left.cols[c][1] # key /\ left.cols[c][1] \in ColNames(right.cols)
        THEN <<left.cols[c][1], "_DELETEME">> ELSE left.cols[c]]
    \o SelectSeq(right.cols, LAMBDA col : col[1] # key)
DropCell(row, c) == SubSeq(row, 1, c - 1) \o SubSeq(row, c + 1, Len(row))
RECURSIVE MatchesOf(_, _, _, _)
MatchesOf(lrow, lk, right, rk) ==
    IF right.rows = <<>> THEN <<>>
    ELSE (IF right.rows[1][rk] = lrow[lk]
          THEN << lrow \o DropCell(right.rows[1], rk) >> ELSE <<>>)
         \o MatchesOf(lrow, lk, [right EXCEPT !.rows = Tail(right.rows)], rk)
RECURSIVE MergeRows(_, _, _, _)
MergeRows(lrows, lk, right, rk) ==
    IF lrows = <<>> THEN <<>>
    ELSE MatchesOf(lrows[1], lk, right, rk) \o MergeRows(Tail(lrows), lk, right, rk)
merge(left, right, key) ==
    Frame(MergeCols(left, right, key),
          MergeRows(left.rows, ColIndex(left.cols, key), right, ColIndex(right.cols, key)))
\* del pdf[col] for the columns that end with _DELETEME.
DeleteSuffixed(df) ==
    LET keep == {c \in 1..Len(df.cols) : df.cols[c][2] # "_DELETEME"}
        Pick(q) == SelectSeq([c \in 1..Len(q) |-> <<c, q[c]>>], LAMBDA it : it[1] \in keep)
        Vals(q) == [c \in 1..Len(Pick(q)) |-> Pick(q)[c][2]]
    IN  Frame(Vals(df.cols), [r \in 1..Len(df.rows) |-> Vals(df.rows[r])])

merge_frames(cendf, geodf) ==
    LET g == ColIndex(cendf.cols, "GEOID")
        stripped == [cendf EXCEPT !.rows =
                        [r \in 1..Len(cendf.rows) |->
                            [cendf.rows[r] EXCEPT ![g] = StripUS(cendf.rows[r][g])]]]
    IN  DeleteSuffixed(merge(stripped, geodf, "GEOID"))

InitMerge ==
    /\ InitCache
    /\ InitNoClient
    /\ kin = NoKeyInput
    /\ kout = NoKeyOutput
    /\ arg \in [f : {"merge_frames"}, x : {<<c, g>> : c \in CenFrames, g \in GeoFrames}]
    /\ ret = NoReturn
    /\ InitNoTiger
ApplyMergeFrames ==
    /\ arg.f = "merge_frames"
    /\ ~ret.done
    /\ ret' = [done |-> TRUE, raised |-> FALSE, v |-> merge_frames(arg.x[1], arg.x[2])]
    /\ UNCHANGED <<cacheVars, last, prev, keyVars, clientVars, arg, tigerVars>>
NextMerge == ApplyMergeFrames
SpecMerge == InitMerge /\ [][NextMerge]_vars

\* C17: the result of merge_frames has exactly one row for each pair of a
\* census row and a geo row where the census GEOID, with everything up to
\* its last 'US' removed, equals the geo GEOID, and no other row; a column
\* name of both frames comes once and carries the geo frame's value.
AfterUS(str) ==
    CHOOSE t \in {SubSeq(str, k, Len(str)) : k \in 1..(Len(str) + 1)} :
        /\ \A k \in 1..(Len(t) - 1) : ~(t[k] = "U" /\ t[k + 1] = "S")
        /\ \/ t = str
           \/ /\ Len(str) - Len(t) >= 2
              /\ str[Len(str) - Len(t) - 1] = "U"
              /\ str[Len(str) - Len(t)] = "S"
CellOf(df, r, name) == df.rows[r][ColIndex(df.cols, name)]
JoinPairs(cendf, geodf) ==
    {p \in (1..Len(cendf.rows)) \X (1..Len(geodf.rows)) :
        AfterUS(CellOf(cendf, p[1], "GEOID")) = CellOf(geodf, p[2], "GEOID")}
JoinedCell(cendf, geodf, p, name) ==
    IF name \in ColNames(geodf.cols) THEN CellOf(geodf, p[2], name)
    ELSE CellOf(cendf, p[1], name)
RowIs(out, r, cendf, geodf, p) ==
    \A c \in 1..Len(out.cols) :
        out.rows[r][c] = JoinedCell(cendf, geodf, p, out.cols[c][1])
C17_InnerJoinOnGeoid ==
    (arg.f = "merge_frames" /\ ret.done) =>
        LET cendf == arg.x[1]
            geodf == arg.x[2]
            out == ret.v
            pairs == JoinPairs(cendf, geodf)
        IN  /\ ~ret.raised
            /\ ColNames(out.cols) = ColNames(cendf.cols) \cup ColNames(geodf.cols)
            /\ Len(out.cols) = Cardinality(ColNames(out.cols))
            /\ \A c \in 1..Len(out.cols) : out.cols[c][2] = ""
            /\ \A r \in 1..Len(out.rows) : \E p \in pairs : RowIs(out, r, cendf, geodf, p)
            /\ \A p \in pairs :
                  Cardinality({r \in 1..Len(out.rows) : RowIs(out, r, cendf, geodf, p)})
                  = Cardinality({q \in pairs :
                        \A name \in ColNames(out.cols) :
                            JoinedCell(cendf, geodf, q, name) = JoinedCell(cendf, geodf, p, name)})
\* One census row with a prefix matches both geo rows, the other census row
\* matches none.
C17_Witness ==
    /\ arg.f = "merge_frames" /\ ret.done
    /\ Len(arg.x[1].rows) = 2 /\ Len(arg.x[2].rows) = 2
    /\ CellOf(arg.x[1], 1, "GEOID") = <<"0", "4", "U", "S", "0", "6">>
    /\ JoinPairs(arg.x[1], arg.x[2]) = {<<1, 1>>, <<1, 2>>}
    /\ Len(ret.v.rows) = 2
    /\ CellOf(ret.v, 1, "NAME") = "tiger"

(* ------------------------------------------------------------------ *)
(* censusbuddy.geo: the reference-table lookups                        *)
(* ------------------------------------------------------------------ *)
MaxPat == 2
\* Rows of the reference tables, in table order.
FIPS_STATE ==
    << [STATE |-> <<"0", "4">>, STUSAB |-> <<"A", "Z">>,
        STATE_NAME |-> <<"A", "r", "i", "z", "o", "n", "a">>],
       [STATE |-> <<"0", "5">>, STUSAB |-> <<"A", "R">>,
        STATE_NAME |-> <<"A", "r", "k", "a", "n", "s", "a", "s">>],
       [STATE |-> <<"0", "6">>, STUSAB |-> <<"C", "A">>,
        STATE_NAME |-> <<"C", "a", "l", "i", "f", "o", "r", "n", "i", "a">>] >>
FIPS_COUNTY ==
    << [STATE |-> <<"A", "Z">>, STATEFP |-> <<"0", "4">>, COUNTYFP |-> <<"0", "0", "1">>,
        COUNTYNAME |-> <<"A", "p", "a", "c", "h", "e", " ", "C", "o", "u", "n", "t", "y">>],
       [STATE |-> <<"C", "A">>, STATEFP |-> <<"0", "6">>, COUNTYFP |-> <<"0", "0", "1">>,
        COUNTYNAME |-> <<"A", "l", "a", "m", "e", "d", "a", " ", "C", "o", "u", "n", "t", "y">>],
       [STATE |-> <<"C", "A">>, STATEFP |-> <<"0", "6">>, COUNTYFP |-> <<"0", "3", "7">>,
        COUNTYNAME |-> <<"L", "o", "s", " ", "A", "n", "g", "e", "l", "e", "s", " ", "C", "o", "u", "n", "t", "y">>] >>
FIPS_COUSUB ==
    << [STATE |-> <<"C", "A">>, STATEFP |-> <<"0", "6">>, COUNTYFP |-> <<"0", "3", "7">>,
        COUSUBFP |-> <<"9", "1", "7", "5", "0">>,
        COUSUBNAME |-> <<"L", "o", "s", " ", "A", "n", "g", "e", "l", "e", "s", " ", "C", "C", "D">>],
       [STATE |-> <<"C", "A">>, STATEFP |-> <<"0", "6">>, COUNTYFP |-> <<"0", "3", "7">>,
        COUSUBFP |-> <<"9", "2", "7", "8", "5">>,
        COUSUBNAME |-> <<"S", "a", "n", " ", "F", "e", "r", "n", "a", "n", "d", "o", " ", "V", "a", "l", "l", "e", "y", " ", "C", "C", "D">>] >>
ENTCEN_XREF ==
    << [tiger |-> "cbsa",
        census |-> "metropolitan statistical area/micropolitan statistical area"],
       [tiger |-> "subbarrio", census |-> "subminor civil division"] >>

\* re.compile(pat, re.I).match(text) for a pattern of letters and digits:
\* text starts with pat, whatever the case.
Fold(c) ==
    CASE c = "A" -> "a" [] c = "C" -> "c" [] c = "D" -> "d" [] c = "F" -> "f"
      [] c = "L" -> "l" [] c = "R" -> "r" [] c = "S" -> "s" [] c = "V" -> "v"
      [] c = "Z" -> "z" [] OTHER -> c
ReMatch(pat, text) ==
    /\ Len(pat) <= Len(text)
    /\ \A k \in 1..Len(pat) : Fold(pat[k]) = Fold(text[k])

\* _chk_candidates raises KeyError on an empty list and warns on a long one;
\* the lookups return candidates[0].
chk_candidates(candidates) == candidates = <<>>
FirstOf(candidates, field) ==
    IF chk_candidates(candidates)
    THEN [done |-> TRUE, raised |-> TRUE, v |-> <<>>]
    ELSE [done |-> TRUE, raised |-> FALSE, v |-> candidates[1][field]]

state_fips(pat) ==
    FirstOf(SelectSeq(FIPS_STATE,
                      LAMBDA row : \/ ReMatch(pat, row.STATE)
                                   \/ ReMatch(pat, row.STUSAB)
                                   \/ ReMatch(pat, row.STATE_NAME)),
            "STATE")
county_fips(state, pat) ==
    FirstOf(SelectSeq(FIPS_COUNTY,
                      LAMBDA row : /\ ~(row.STATEFP # state /\ row.STATE # state)
                                   /\ \/ ReMatch(pat, row.COUNTYFP)
                                      \/ ReMatch(pat, row.COUNTYNAME)),
            "COUNTYFP")
\* A county is passed as text or as an int, which is formatted '{:03d}'.
CountyText(chars) == [t |-> "str", v |-> chars, n |-> 0]
CountyInt(n) == [t |-> "int", v |-> <<>>, n |-> n]
Format03d(n) == IF n = 37 THEN <<"0", "3", "7">> ELSE <<"0", "0", "1">>
cousub_fips(state, county, pat) ==
    LET cty == IF county.t = "int" THEN Format03d(county.n) ELSE county.v IN
    FirstOf(SelectSeq(FIPS_COUSUB,
                      LAMBDA row : /\ ~(row.STATEFP # state /\ row.STATE # state)
                                   /\ row.COUNTYFP = cty
                                   /\ \/ ReMatch(pat, row.COUSUBFP)
                                      \/ ReMatch(pat, row.COUSUBNAME)),
            "COUSUBFP")
entity_to_census(entity) ==
    LET candidates == SelectSeq(ENTCEN_XREF, LAMBDA row : row.tiger = entity) IN
    IF Len(candidates) = 0
    THEN [done |-> TRUE, raised |-> TRUE, v |-> <<>>]
    ELSE [done |-> TRUE, raised |-> FALSE, v |-> candidates[1].census]


\* The calls: patterns of up to MaxPat characters for state_fips, and for
\* the other lookups the arguments of the package's tests and some more.
PatAlphabet == {"A", "R", "Z", "C", "a", "0", "4", "5", "6"}
Patterns == UNION {[1..n -> PatAlphabet] : n \in 0..MaxPat}
StateArgs == { <<"C", "A">>, <<"0", "6">>, <<"A", "Z">>,
               <<"C", "a", "l", "i", "f", "o", "r", "n", "i", "a">> }
CountyPats == { <<>>, <<"0">>, <<"0", "3">>, <<"l", "o", "s", " ", "a", "n", "g">>,
                <<"A">>, <<"x">> }
CountyArgs == { CountyText(<<"0", "3", "7">>), CountyInt(37),
                CountyText(<<"n", "o", "t">>) }
CousubPats == { <<>>, <<"9">>, <<"s", "a", "n", " ", "f", "e", "r", "n">>, <<"x">> }
Entities == {"cbsa", "subbarrio", "notakey"}
GeoCalls ==
    [f : {"state_fips"}, x : Patterns]
    \cup [f : {"county_fips"}, x : StateArgs \X CountyPats]
    \cup [f : {"cousub_fips"}, x : StateArgs \X CountyArgs \X CousubPats]
    \cup [f : {"entity_to_census"}, x : Entities]
InitGeo ==
    /\ InitCache
    /\ InitNoClient
    /\ kin = NoKeyInput
    /\ kout = NoKeyOutput
    /\ arg \in GeoCalls
    /\ ret = NoReturn
    /\ InitNoTiger
ApplyStateFips ==
    /\ arg.f = "state_fips" /\ ~ret.done
    /\ ret' = state_fips(arg.x)
    /\ UNCHANGED <<cacheVars, last, prev, keyVars, clientVars, arg, tigerVars>>
ApplyCountyFips ==
    /\ arg.f = "county_fips" /\ ~ret.done
    /\ ret' = county_fips(arg.x[1], arg.x[2])
    /\ UNCHANGED <<cacheVars, last, prev, keyVars, clientVars, arg, tigerVars>>
ApplyCousubFips ==
    /\ arg.f = "cousub_fips" /\ ~ret.done
    /\ ret' = cousub_fips(arg.x[1], arg.x[2], arg.x[3])
    /\ UNCHANGED <<cacheVars, last, prev, keyVars, clientVars, arg, tigerVars>>
ApplyEntityToCensus ==
    /\ arg.f = "entity_to_census" /\ ~ret.done
    /\ ret' = entity_to_census(arg.x)
    /\ UNCHANGED <<cacheVars, last, prev, keyVars, clientVars, arg, tigerVars>>
NextGeo ==
    \/ ApplyStateFips
    \/ ApplyCountyFips
    \/ ApplyCousubFips
    \/ ApplyEntityToCensus
SpecGeo == InitGeo /\ [][NextGeo]_vars

\* C18: a lookup raises KeyError when no row of its table matches and
\* returns the code of the first matching row otherwise; and a state's
\* postal code given as the pattern of state_fips returns what the state's
\* FIPS code returns, the FIPS code of that state.
StateRowMatches(pat) ==
    {r \in 1..Len(FIPS_STATE) :
        \/ ReMatch(pat, FIPS_STATE[r].STATE)
        \/ ReMatch(pat, FIPS_STATE[r].STUSAB)
        \/ ReMatch(pat, FIPS_STATE[r].STATE_NAME)}
Least(set) == CHOOSE r \in set : \A q \in set : r <= q
C18_Lookups ==
    /\ (arg.f = "state_fips" /\ ret.done) =>
          /\ ret.raised <=> StateRowMatches(arg.x) = {}
          /\ ~ret.raised => ret.v = FIPS_STATE[Least(StateRowMatches(arg.x))].STATE
          /\ \A r \in 1..Len(FIPS_STATE) :
                arg.x = FIPS_STATE[r].STUSAB =>
                    /\ ret = state_fips(FIPS_STATE[r].STATE)
                    /\ ret.v = FIPS_STATE[r].STATE
    /\ (arg.f = "entity_to_census" /\ ret.done) =>
          /\ ret.raised <=> \A r \in 1..Len(ENTCEN_XREF) : ENTCEN_XREF[r].tiger # arg.x
          /\ ~ret.raised =>
                \E r \in 1..Len(ENTCEN_XREF) :
                    /\ ENTCEN_XREF[r].tiger = arg.x
                    /\ ret.v = ENTCEN_XREF[r].census
                    /\ \A q \in 1..(r - 1) : ENTCEN_XREF[q].tiger # arg.x

(* ------------------------------------------------------------------ *)
(* Claims about the index file (specification Spec)                    *)
(* ------------------------------------------------------------------ *)
\* C19: when save returns, the index file holds the mapping that the
\* index of the saving cache holds in memory, the new entry included, and
\* a cache constructed next on the directory starts with that mapping.
C19_Step ==
    /\ last'.op = "save" =>
          /\ indexFile'.exists
          /\ ~InitRaises(indexFile')
          /\ indexFile'.map = index'[last'.inst]
          /\ last'.key \in DOMAIN indexFile'.map
          /\ indexFile'.map[last'.key] = last'.fn
    /\ (last.op = "save" /\ last'.op = "init") =>
          /\ ~last'.raised
          /\ index'[last'.inst] = index[last.inst]
C19_NoDeferredIndexWrite == [][C19_Step]_vars
\* A cache constructed right after a save that also wrote out the removal
\* of an entry that load had dropped in memory only.
C19_Witness ==
    /\ last.op = "init" /\ prev.op = "save"
    /\ Cardinality(DOMAIN index[last.inst]) = 1
    /\ prev.key \in DOMAIN index[last.inst]
    /\ prev.fn = BaseFni + 2
    /\ indexFile.map = index[last.inst]

(* ------------------------------------------------------------------ *)
(* Constructions of CensusQuery on one directory                       *)
(* ------------------------------------------------------------------ *)
\* An empty cache directory and no object; CensusQuery objects are then
\* constructed for one dataset name, the server answering each request as
\* it may.
ConstructedName == "ACSProfile5Y2015"
VarsAnswers == Statuses \cup {"empty"}
InitConstruct ==
    /\ st = [i \in Inst |-> "none"]
    /\ index = [i \in Inst |-> EmptyMap]
    /\ last_fni = [i \in Inst |-> BaseFni]
    /\ indexFile = AbsentIndexFile
    /\ files = EmptyMap
    /\ last = NoOp
    /\ prev = NoOp
    /\ InitNoClient
    /\ kin = NoKeyInput
    /\ kout = NoKeyOutput
    /\ InitNoCall
    /\ InitNoTiger
NextConstruct ==
    \E i \in Inst : \E r1 \in Statuses : \E r2 \in VarsAnswers :
        CensusQueryInit(i, ConstructedName, S("SECRET1"), r1, r2)
SpecConstruct == InitConstruct /\ [][NextConstruct]_vars

\* C20 as stated: over the constructions for one dataset name the
\* descriptor and the catalog are each requested at most once, and a
\* construction that follows another issues no request.
C20_RequestedOnce ==
    /\ \A n \in DatasetNames : asked[n].ds <= 1 /\ asked[n].vars <= 1
    /\ (last.op = "new" /\ prev.op = "new") => last.net = <<>>

\* C20 as amended: a construction requests the descriptor only when the
\* directory has no descriptor file, and the catalog only when it has no
\* catalog file or an empty catalog; once the directory has both, every
\* construction reads them from the files, issues no request and leaves
\* them in place.
Cached(n, df, vf) == n \in df /\ n \in DOMAIN vf /\ DOMAIN vf[n] # {}
C20_Step ==
    /\ \A n \in DatasetNames :
          /\ asked'[n].ds > asked[n].ds => n \notin dsFile
          /\ asked'[n].vars > asked[n].vars =>
                (n \notin DOMAIN varsFile \/ DOMAIN varsFile[n] = {})
          /\ Cached(n, dsFile, varsFile) =>
                (asked'[n] = asked[n] /\ Cached(n, dsFile', varsFile'))
    /\ (last'.op = "new" /\ Cached(ConstructedName, dsFile, varsFile)) =>
          /\ last'.net = <<>>
          /\ ~last'.raised
          /\ catalog'[last'.inst] = varsFile[ConstructedName]
C20_RequestedWhileMissing == [][C20_Step]_vars
\* The third construction: the first got the descriptor and no catalog,
\* the second the catalog, the third asks for nothing.
C20_Witness ==
    /\ last.op = "new" /\ prev.op = "new"
    /\ last.net = <<>> /\ ~last.raised
    /\ prev.net = <<"vars">> /\ ~prev.raised
    /\ asked[ConstructedName] = [ds |-> 1, vars |-> 2]

(* ------------------------------------------------------------------ *)
(* Claims about the clean-up of a stale entry (specification Spec)     *)
(* ------------------------------------------------------------------ *)
\* C22: load of a key that is in the index while its result file is gone
\* removes that key alone from the index in memory and leaves last_fni as it
\* was; no load writes the index file or a result file, so the index file
\* keeps the stale entry, and only a save rewrites it: the save that follows
\* writes the index in memory, without the stale entry unless it is the
\* key saved.
C22_Step ==
    /\ last'.op = "load" =>
          /\ UNCHANGED <<indexFile, files, last_fni, st>>
          /\ \A j \in Inst \ {last'.inst} : index'[j] = index[j]
    /\ (last'.op = "load" /\ Stale(index[last'.inst], files, last'.key)) =>
          /\ index'[last'.inst] = MapDel(index[last'.inst], last'.key)
          /\ last'.key \in DOMAIN indexFile'.map
          /\ indexFile'.map[last'.key] = index[last'.inst][last'.key]
    /\ (last'.op = "load" /\ ~Stale(index[last'.inst], files, last'.key)) =>
          index'[last'.inst] = index[last'.inst]
    /\ last'.op # "save" => indexFile' = indexFile
    /\ (StaleLoad(last) /\ last'.op = "save" /\ last'.inst = last.inst) =>
          /\ indexFile'.map = index'[last.inst]
          /\ last'.key # last.key => last.key \notin DOMAIN indexFile'.map
C22_LazyCleanup == [][C22_Step]_vars
\* A stale load that left another entry in place, the index file still
\* holding both.
C22_Witness ==
    /\ StaleLoad(last)
    /\ Cardinality(DOMAIN index[last.inst]) = 1
    /\ last.key \notin DOMAIN index[last.inst]
    /\ last.key \in DOMAIN indexFile.map
    /\ Cardinality(DOMAIN indexFile.map) = 2

(* ------------------------------------------------------------------ *)
(* Claims about the order of the writes of save (specification         *)
(* SpecWrite)                                                          *)
(* ------------------------------------------------------------------ *)
\* C27: with no result file removed from outside, in every state, those a
\* dying save leaves included, every FileId of an index file that can be read
\* has its result file; at most one result file is not referenced by the
\* index file, and its FileId is the one a save of a new key allocates after
\* a restart on that directory.
Readable(ixf) == ixf.exists /\ ixf.ok
Unreferenced(fs, ixf) == DOMAIN fs \ Range(InitIndex(ixf))
RestartFni(ixf, key) == SaveFni(InitIndex(ixf), InitLastFni(InitIndex(ixf)), key)
C27_Referenced ==
    Readable(indexFile) => Range(indexFile.map) \subseteq DOMAIN files
C27_Orphan ==
    ~InitRaises(indexFile) =>
        /\ Cardinality(Unreferenced(files, indexFile)) <= 1
        /\ \A f \in Unreferenced(files, indexFile) :
              \A key \in CacheKeys \ DOMAIN InitIndex(indexFile) :
                  RestartFni(indexFile, key) = f
C27_Step ==
    (/\ last.op = "init" /\ ~last.raised /\ prev.op = "crash"
     /\ prev.fn \in Unreferenced(files, indexFile)
     /\ last'.op = "save" /\ last'.fresh)
        => /\ last'.fn = prev.fn
           /\ Unreferenced(files', indexFile') = {}
C27_WriteOrdering == [](C27_Referenced /\ C27_Orphan) /\ [][C27_Step]_vars
\* The process died between the two writes of a save of a second key: the
\* index file holds the first key and the second key's file is on disk.
C27_Witness ==
    /\ last.op = "crash" /\ last.fresh
    /\ Readable(indexFile) /\ Cardinality(DOMAIN indexFile.map) = 1
    /\ Unreferenced(files, indexFile) = {last.fn}
    /\ files[last.fn] = to_csv(last.df)

(* ------------------------------------------------------------------ *)
(* Claims about a shared cache directory (specification SpecShared)    *)
(* ------------------------------------------------------------------ *)
\* C23: with two cache instances on one directory, a save of a new key takes
\* last_fni + 1 of its own instance whatever the directory or the other
\* instance holds under that FileId, and writes the index file from its own
\* index alone. Each instance's index stays injective, and yet a state is
\* reached (C23_Witness) where two keys hold the same FileId across the
\* instances, load(k) on one returns the frame the other saved under another
\* key, and an entry one instance persisted is gone from the index file.
SharedFileId(k1, k2) ==
    /\ k1 # k2
    /\ k1 \in DOMAIN index[1] /\ k2 \in DOMAIN index[2]
    /\ index[1][k1] = index[2][k2]
C23_Step ==
    /\ \A i \in Inst : st'[i] = "up" => Injective(index'[i])
    /\ (last'.op = "save" /\ last'.fresh) =>
          /\ last'.fn = last_fni[last'.inst] + 1
          /\ files'[last'.fn] = to_csv(last'.df)
          /\ \A j \in Inst \ {last'.inst} : \A k \in DOMAIN index'[j] :
                index'[j][k] = last'.fn =>
                    LoadFrame(index'[j], files', k) = read_csv(to_csv(last'.df))
    /\ last'.op = "save" =>
          /\ indexFile'.map = index'[last'.inst]
          /\ \A k \in DOMAIN indexFile.map \ DOMAIN index'[last'.inst] :
                k \notin DOMAIN indexFile'.map
C23_SharedDirectoryUnsafe == [][C23_Step]_vars
\* Instance 1 saved and persisted last.key; instance 2 then saved another key
\* under the same FileId; load(last.key) on instance 1 returns instance 2's
\* frame, and the index file no longer has last.key.
C23_Witness ==
    /\ last.op = "load" /\ last.inst = 1 /\ ~last.raised
    /\ prev.op = "save" /\ prev.inst = 2 /\ prev.fresh
    /\ SharedFileId(last.key, prev.key)
    /\ last.fn = prev.fn
    /\ last.df = read_csv(to_csv(prev.df))
    /\ last.df # read_csv(to_csv(Frame(<<"NAME", "X">>, <<>>)))
    /\ last.key \notin DOMAIN indexFile.map
    /\ prev.key \in DOMAIN indexFile.map

(* ------------------------------------------------------------------ *)
(* Claims about query with the cache switched off (specification       *)
(* SpecQuery)                                                          *)
(* ------------------------------------------------------------------ *)
\* The cache has an entry, with its file, for the request the call built.
EntryFor(i, sent) ==
    /\ make_key(UrlOf(dataset[i]), sent) \in DOMAIN index[i]
    /\ index[i][make_key(UrlOf(dataset[i]), sent)] \in DOMAIN files
\* The call ended at the geography rules: their request failed, or they
\* refused the clauses.
StoppedAtGuard(o) ==
    o.op = "query" /\ o.via \in {"raise", "guard"} /\ o.net = <<"geo">>
NoCacheCall(o) == o.op = "query" /\ ~o.args.cache
\* C26 as stated: a query call with cache=False makes no key and leaves the
\* index, last_fni, the index file and the result files as they were,
\* whether it returns or raises, and it always requests the data from the
\* network.
C26_StepAlwaysFetched ==
    NoCacheCall(last') =>
        /\ last'.key = NoKey
        /\ UNCHANGED <<st, index, last_fni, indexFile, files>>
        /\ "data" \in SeqRange(last'.net)
C26_AlwaysFetched == [][C26_StepAlwaysFetched]_vars

\* C26 as amended: a query call with cache=False makes no key and leaves
\* the index, last_fni, the index file and the result files as they were,
\* whether it returns or raises; unless it ends at the geography rules, it
\* requests the data from the network, an entry for the same request being
\* cached or not, and what it returns is the answer's frame.
C26_Step ==
    NoCacheCall(last') =>
        /\ last'.key = NoKey
        /\ UNCHANGED <<st, index, last_fni, indexFile, files>>
        /\ ~StoppedAtGuard(last') =>
              /\ "data" \in SeqRange(last'.net)
              /\ last'.via \in {"net", "raise"}
              /\ last'.via = "net" =>
                    last'.df = Coerce(last'.env.resp.body, catalog[last'.inst],
                                      NormGet(last'.args.get, catalog[last'.inst]))
C26_CacheUntouched == [][C26_Step]_vars
\* A call with cache=False that fetched while the cache held another frame
\* for the same request.
C26_Witness ==
    /\ NoCacheCall(last) /\ last.via = "net"
    /\ EntryFor(last.inst, last.sent)
    /\ last.df # LoadFrame(index[last.inst], files,
                           make_key(UrlOf(dataset[last.inst]), last.sent))
    /\ last.df.isdf /\ Len(last.df.rows) > 0

(* ------------------------------------------------------------------ *)
(* Claims about the order a request is written in (specification       *)
(* SpecOrder)                                                          *)
(* ------------------------------------------------------------------ *)
\* The two calls have the same fields, the same 'for' and 'in' items and
\* the same extra parameters, whatever the order of each.
SameUnordered(a, b) ==
    /\ SeqRange(a.get) = SeqRange(b.get) /\ Len(a.get) = Len(b.get)
    /\ DictItems(a.for) = DictItems(b.for)
    /\ DictItems(a.in) = DictItems(b.in)
    /\ DictItems(a.parameters) = DictItems(b.parameters)
    /\ a.cache /\ b.cache
\* C25: two query calls in a row on one CensusQuery, with arguments that
\* are equal as unordered collections, that both get to the cache lookup,
\* look up the same key; when the first returned a frame, the second is
\* served from the cache and requests no data.
C25_Step ==
    (/\ last.op = "query" /\ last'.op = "query" /\ last'.inst = last.inst
     /\ SameUnordered(last.args, last'.args)
     /\ last.key # NoKey /\ last'.key # NoKey)
        => /\ last'.key = last.key
           /\ last.via \in {"net", "cache"} =>
                 (last'.via = "cache" /\ "data" \notin SeqRange(last'.net))
C25_KeyOfUnorderedRequest == [][C25_Step]_vars

(* ------------------------------------------------------------------ *)
(* TigerDownloader and TigerDownloaderHTTP                             *)
(* ------------------------------------------------------------------ *)
MaxTemps == 2       \* temporary directories that may exist at once

\* configure: the basename is 'cb', the year, the state, the entity and the
\* resolution, each as str() gives it, joined by '_'.
Basename(year, state, entity, resolution) ==
    "cb_" \o year.s \o "_" \o state.s \o "_" \o entity.s \o "_" \o resolution.s
ConfigArgs ==
    {<<I("2016"), S("us"), S("nation"), S("20m")>>,
     <<I("2015"), S("06"), S("place"), S("500k")>>}
\* What __init__ configures.
DefaultBasename == Basename(I("2016"), S("us"), S("nation"), S("20m"))

\* The server's answers to the request for the archive: the archive, a
\* status other than 200, or a 200 whose body breaks off while it is read.
ArchiveAnswers == {"ok", "fail", "cut"}
\* The conversion tool on the host: not installed, or installed and, when
\* run, converting, failing before it writes, or failing after it wrote a
\* part of the output.
ToolStates == {"absent", "ok", "fails", "failsMidway"}

\* TigerDownloaderHTTP.fetch of the object tg on the directory dir.
TigerFetch(tg, dir, cache, answer) ==
    LET b == tg.basename
        same == [zip |-> dir.zip, net |-> <<>>, raised |-> FALSE, ofn |-> b \o ".zip",
                 via |-> ""]
    IN  IF cache /\ b \in DOMAIN dir.zip
        THEN [same EXCEPT !.via = "cached"]
        ELSE IF tg.dryrun
        THEN [same EXCEPT !.via = "dryrun"]
        ELSE IF answer = "ok"
        THEN [same EXCEPT !.zip = MapPut(dir.zip, b, "ok"), !.net = <<"get">>,
                          !.via = "written"]
        ELSE IF answer = "cut"
        THEN [same EXCEPT !.zip = MapPut(dir.zip, b, "bad"), !.net = <<"get">>,
                          !.raised = TRUE, !.ofn = "", !.via = "raise"]
        ELSE [same EXCEPT !.net = <<"get">>, !.via = "aborted"]

\* tempfile.mkdtemp: a directory that did not exist.
Mkdtemp(ts) == CHOOSE d \in 1..(MaxTemps + 1) : d \notin ts /\ \A e \in 1..(d - 1) : e \in ts
\* shutil.rmtree(tempdir) of the finally clause.
RmtreeSkip(ts, d) == ts
Rmtree(ts, d) == ts \ {d}
\* gpd.read_file of a .geojson: the frame of a whole file; a file that
\* breaks off raises.
ReadFile(content) == IF content = "ok" THEN "frame" ELSE "raise"

\* TigerDownloader.unpack of the object tg: dir is its directory, ts the
\* temporary directories that exist, tool the state of the conversion tool.
TigerUnpack(tg, dir, ts, simplify, cache, tool) ==
    LET b == tg.basename
        d == Mkdtemp(ts)
        same == [geojson |-> dir.geojson, temps |-> ts, raised |-> FALSE, result |-> "",
                 made |-> 0, via |-> "", simplify |-> FALSE]
        made == [same EXCEPT !.made = d, !.temps = Rmtree(ts \cup {d}, d)]
    IN  IF cache /\ b \in DOMAIN dir.geojson
        THEN [same EXCEPT !.via = "cached",
                          !.raised = ReadFile(dir.geojson[b]) = "raise",
                          !.result = IF ReadFile(dir.geojson[b]) = "raise" THEN ""
                                     ELSE "frame"]
        ELSE IF b \notin DOMAIN dir.zip \/ dir.zip[b] # "ok"
        THEN [made EXCEPT !.via = "nozip", !.raised = TRUE]
        ELSE IF tool = "absent"
        THEN [made EXCEPT !.via = "notool", !.result = "empty"]
        ELSE IF tool = "fails"
        THEN [made EXCEPT !.via = "toolfailed", !.result = "empty",
                          !.simplify = simplify > 0]
        ELSE IF tool = "failsMidway"
        THEN [made EXCEPT !.via = "toolfailed", !.result = "empty",
                          !.simplify = simplify > 0,
                          !.geojson = MapPut(dir.geojson, b, "partial")]
        ELSE [made EXCEPT !.via = "converted", !.result = "frame",
                          !.simplify = simplify > 0,
                          !.geojson = MapPut(dir.geojson, b, "ok")]

\* A TigerDownloaderHTTP constructed on an empty cache_dir.
InitTiger ==
    /\ InitCache
    /\ InitNoClient
    /\ kin = NoKeyInput
    /\ kout = NoKeyOutput
    /\ InitNoCall
    /\ \E dry \in BOOLEAN : tiger = [basename |-> DefaultBasename, dryrun |-> dry]
    /\ tdir = EmptyDir
    /\ temps = {}
    /\ tlast = [NoTigerCall EXCEPT !.op = "new"]

Configure(c) ==
    /\ tiger' = [tiger EXCEPT !.basename = Basename(c[1], c[2], c[3], c[4])]
    /\ tlast' = [NoTigerCall EXCEPT !.op = "configure"]
    /\ UNCHANGED <<tdir, temps, cacheVars, last, prev, keyVars, libVars, clientVars>>

Fetch(cache, answer) ==
    \E f \in {TigerFetch(tiger, tdir, cache, answer)} :
    /\ tdir' = [tdir EXCEPT !.zip = f.zip]
    /\ tlast' = [NoTigerCall EXCEPT !.op = "fetch", !.cache = cache,
                    !.answer = IF f.net # <<>> THEN answer ELSE "",
                    !.net = f.net, !.fetched = f.via, !.ofn = f.ofn,
                    !.raised = f.raised, !.by = IF f.raised THEN "fetch" ELSE ""]
    /\ UNCHANGED <<tiger, temps, cacheVars, last, prev, keyVars, libVars, clientVars>>

Unpack(simplify, cache, tool) ==
    \E u \in {TigerUnpack(tiger, tdir, temps, simplify, cache, tool)} :
    /\ Cardinality(u.temps) <= MaxTemps
    /\ tdir' = [tdir EXCEPT !.geojson = u.geojson]
    /\ temps' = u.temps
    /\ tlast' = [NoTigerCall EXCEPT !.op = "unpack", !.cache = cache, !.tool = tool,
                    !.via = u.via, !.raised = u.raised,
                    !.by = IF u.raised THEN "unpack" ELSE "",
                    !.result = u.result, !.made = u.made, !.simplify = u.simplify]
    /\ UNCHANGED <<tiger, cacheVars, last, prev, keyVars, libVars, clientVars>>

\* TigerDownloader.query: configure, then fetch, then unpack unless fetch
\* raised.
TigerQuery(c, simplify, cache, answer, tool) ==
    \E tg \in {[tiger EXCEPT !.basename = Basename(c[1], c[2], c[3], c[4])]} :
    \E f \in {TigerFetch(tg, tdir, cache, answer)} :
    \E u \in {TigerUnpack(tg, [tdir EXCEPT !.zip = f.zip], temps, simplify, cache, tool)} :
    /\ Cardinality(u.temps) <= MaxTemps
    /\ tiger' = tg
    /\ IF f.raised
       THEN /\ tdir' = [tdir EXCEPT !.zip = f.zip]
            /\ temps' = temps
            /\ tlast' = [NoTigerCall EXCEPT !.op = "query", !.cache = cache,
                            !.answer = answer, !.net = f.net, !.fetched = f.via,
                            !.raised = TRUE, !.by = "fetch"]
       ELSE /\ tdir' = [zip |-> f.zip, geojson |-> u.geojson]
            /\ temps' = u.temps
            /\ tlast' = [NoTigerCall EXCEPT !.op = "query", !.cache = cache,
                            !.answer = IF f.net # <<>> THEN answer ELSE "",
                            !.tool = tool, !.net = f.net, !.fetched = f.via,
                            !.ofn = f.ofn, !.via = u.via, !.raised = u.raised,
                            !.by = IF u.raised THEN "unpack" ELSE "",
                            !.result = u.result, !.made = u.made,
                            !.simplify = u.simplify]
    /\ UNCHANGED <<cacheVars, last, prev, keyVars, libVars, clientVars>>

NextTiger ==
    \/ \E c \in ConfigArgs : Configure(c)
    \/ \E cache \in BOOLEAN, answer \in ArchiveAnswers : Fetch(cache, answer)
    \/ \E simplify \in {0, 1}, cache \in BOOLEAN, tool \in ToolStates :
          Unpack(simplify, cache, tool)
    \/ \E c \in ConfigArgs, simplify \in {0, 1}, cache \in BOOLEAN,
          answer \in ArchiveAnswers, tool \in ToolStates :
          TigerQuery(c, simplify, cache, answer, tool)

SpecTiger == InitTiger /\ [][NextTiger]_vars

(* ------------------------------------------------------------------ *)
(* Claims about TigerDownloader (specification SpecTiger)              *)
(* ------------------------------------------------------------------ *)
\* The call ran unpack (on its own, or inside query after fetch returned).
RanUnpack(t) == t.op \in {"unpack", "query"} /\ t.by # "fetch"
\* unpack ran the conversion tool and its exit status was not 0.
ToolFailed(t) == t.via = "toolfailed"
\* C21 as stated: when the conversion tool is absent, or exits with a
\* nonzero status, unpack returns an empty result and does not raise; every
\* unpack that made a temporary directory has removed it when it ends.
C21_StepAlwaysEmpty ==
    /\ (RanUnpack(tlast') /\ (tlast'.tool = "absent" \/ ToolFailed(tlast'))) =>
          (tlast'.result = "empty" /\ ~tlast'.raised)
    /\ (RanUnpack(tlast') /\ tlast'.made # 0) =>
          (tlast'.made \notin temps' /\ temps' = temps)
GeoJsonCached(t, b) == t.cache /\ b \in DOMAIN tdir.geojson
ArchiveUnpacks(b) == b \in DOMAIN tdir'.zip /\ tdir'.zip[b] = "ok"
C21_Step ==
    /\ (/\ RanUnpack(tlast')
        /\ ~GeoJsonCached(tlast', tiger'.basename)
        /\ ArchiveUnpacks(tiger'.basename)
        /\ tlast'.tool \in {"absent", "fails", "failsMidway"})
          => (tlast'.result = "empty" /\ ~tlast'.raised /\ tlast'.made # 0)
    /\ (RanUnpack(tlast') /\ ~GeoJsonCached(tlast', tiger'.basename)) =>
          tlast'.made # 0
    /\ (RanUnpack(tlast') /\ tlast'.made # 0) =>
          (tlast'.made \notin temps' /\ temps' = temps)
C24_Step ==
    (tlast'.op \in {"fetch", "query"} /\ tlast'.answer = "fail") =>
        /\ tlast'.raised /\ tlast'.by = "fetch"
        /\ tdir'.zip = tdir.zip
        /\ ~(tlast'.ofn # "" /\ tiger'.basename \notin DOMAIN tdir'.zip)
C24_FailedDownloadPropagates == [][C24_Step]_vars

====
